---- MODULE Spec2Model ----
(***************************************************************************)
(* Model of the TRAC runtime's model-repository layer                      *)
(* (tracdap/rt/_impl/repos.py): the credential URL helpers, the Local,     *)
(* Integrated, Git and PyPI repository backends and the RepositoryManager. *)
(*                                                                         *)
(* Python strings are sequences of one-character strings, so that index,   *)
(* slicing, replace and regular-expression matching are computed as the    *)
(* code computes them.  Python's None is the sentinel None below.          *)
(***************************************************************************)
EXTENDS Integers, Sequences, FiniteSets, TLC

\* ------------------------------------------------------------------ bounds

\* Repository entries in one system configuration.
MaxRepos == 2
\* do_checkout calls one caller makes.
MaxCalls == 2
\* Files in one simple-index / metadata response.
MaxFiles == 2

\* --------------------------------------------------------- Python strings

\* Python None, comparable with every string of the model.
None == <<"<None>">>

Range(s) == {s[i] : i \in 1..Len(s)}

\* str.find(c): 1-based position of the first c in s, 0 when there is none.
Find(s, c) ==
    IF \E i \in 1..Len(s) : s[i] = c
    THEN CHOOSE i \in 1..Len(s) : s[i] = c /\ \A j \in 1..(i - 1) : s[j] # c
    ELSE 0

\* Position of the last c in s, 0 when there is none (str.rpartition).
RFind(s, c) ==
    IF \E i \in 1..Len(s) : s[i] = c
    THEN CHOOSE i \in 1..Len(s) : s[i] = c /\ \A j \in (i + 1)..Len(s) : s[j] # c
    ELSE 0

\* sub in s
Contains(s, sub) ==
    \E i \in 1..(Len(s) - Len(sub) + 1) : SubSeq(s, i, i + Len(sub) - 1) = sub

\* s.replace(a, b) for one-character a and b.
Replace(s, a, b) == [i \in 1..Len(s) |-> IF s[i] = a THEN b ELSE s[i]]

\* ------------------------------------------------------ urllib.parse model

\* urllib.parse.urlparse for URLs of the shape scheme://netloc/path
\* (no query, no fragment); a string with no "://" is all path.
UrlParse(s) ==
    LET c == Find(s, ":")
        hasAuth == c > 0 /\ Len(s) >= c + 2 /\ s[c + 1] = "/" /\ s[c + 2] = "/"
        rest == SubSeq(s, c + 3, Len(s))
        slash == Find(rest, "/")
    IN  IF ~hasAuth
        THEN [scheme |-> <<>>, netloc |-> <<>>, path |-> s]
        ELSE [scheme |-> SubSeq(s, 1, c - 1),
              netloc |-> IF slash = 0 THEN rest ELSE SubSeq(rest, 1, slash - 1),
              path |-> IF slash = 0 THEN <<>> ELSE SubSeq(rest, slash, Len(rest))]

\* ParseResult.geturl()
GetUrl(u) ==
    IF u.netloc = <<>> /\ u.scheme = <<>>
    THEN u.path
    ELSE u.scheme \o <<":", "/", "/">> \o u.netloc \o u.path

\* ParseResult.username: the part of the userinfo before the first ':',
\* where the userinfo is what precedes the LAST '@' of the netloc.
UrlUsername(u) ==
    LET at == RFind(u.netloc, "@")
        userinfo == SubSeq(u.netloc, 1, at - 1)
        colon == Find(userinfo, ":")
    IN  IF at = 0 THEN None
        ELSE IF colon = 0 THEN userinfo ELSE SubSeq(userinfo, 1, colon - 1)

\* ------------------------------------------------------------ util helpers

\* _util.get_plugin_property: the property's value, None when it is not set.
GetPluginProperty(config, key) ==
    IF key \in DOMAIN config.properties THEN config.properties[key] ELSE None

\* _util.log_safe_url / _util.log_safe: the URL with the credentials of its
\* authority removed; a string that is no URL is returned as it is.
LogSafeUrl(u) ==
    LET at == RFind(u.netloc, "@")
    IN  GetUrl([u EXCEPT !.netloc = SubSeq(u.netloc, at + 1, Len(u.netloc))])

LogSafe(s) == LogSafeUrl(UrlParse(s))

\* ------------------------------------------------------ credential helpers

\* _get_credentials(url, plugin_config)
GetCredentials(url, config) ==
    LET token == GetPluginProperty(config, "token")
        username == GetPluginProperty(config, "username")
        password == GetPluginProperty(config, "password")
    IN  IF token # None THEN token
        ELSE IF username # None /\ password # None
        THEN username \o <<":">> \o password
        ELSE IF UrlUsername(url) # None /\ UrlUsername(url) # <<>>
        THEN SubSeq(url.netloc, 1, Find(url.netloc, "@") - 1)
        ELSE None

\* _apply_credentials(url, credentials)
ApplyCredentials(url, credentials) ==
    IF credentials = None THEN url
    ELSE IF UrlUsername(url) = None
    THEN [url EXCEPT !.netloc = credentials \o <<"@">> \o url.netloc]
    ELSE [url EXCEPT !.netloc =
            credentials \o <<"@">>
                \o SubSeq(url.netloc, Find(url.netloc, "@") + 1, Len(url.netloc))]

\* ---------------------------------------------------------- configuration

NoProps == [k \in {} |-> None]

\* Strings of the inputs, one character per element.
RepoUrlPlain == <<"h", ":", "/", "/", "g", "/", "r">>
RepoUrlCreds == <<"h", ":", "/", "/", "u", ":", "p", "@", "g", "/", "r">>
LocalBase == <<"/", "m">>
IndexUrl == <<"h", ":", "/", "/", "i", "/", "s">>
Token == <<"t", "k">>

\* _cfg.PluginConfig values: a protocol and string-keyed properties.
CfgIntegrated == [protocol |-> "integrated", properties |-> NoProps]
CfgLocal == [protocol |-> "local", properties |-> [repoUrl |-> LocalBase]]
CfgLocalNoUrl == [protocol |-> "local", properties |-> NoProps]
CfgGitToken ==
    [protocol |-> "git", properties |-> [repoUrl |-> RepoUrlPlain, token |-> Token]]
CfgGitPlain == [protocol |-> "git", properties |-> [repoUrl |-> RepoUrlPlain]]
CfgGitEmbedded == [protocol |-> "git", properties |-> [repoUrl |-> RepoUrlCreds]]
CfgPyPiSimple == [protocol |-> "pypi", properties |-> [pipIndexUrl |-> IndexUrl]]
CfgPyPiSimpleToken ==
    [protocol |-> "pypi", properties |-> [pipIndexUrl |-> IndexUrl, token |-> Token]]
CfgPyPiJson == [protocol |-> "pypi", properties |-> [pipIndex |-> IndexUrl]]
CfgPyPiSimpleHtml ==
    [protocol |-> "pypi",
     properties |-> [pipIndexUrl |-> IndexUrl, pipSimpleFormat |-> <<"html">>]]
CfgPyPiNoIndex == [protocol |-> "pypi", properties |-> NoProps]
CfgGitNoUrl == [protocol |-> "git", properties |-> NoProps]
CfgExt == [protocol |-> "ext", properties |-> NoProps]

\* The repository entries a system configuration is drawn from.
EntryKinds ==
    {CfgIntegrated, CfgLocal, CfgLocalNoUrl, CfgGitToken, CfgGitNoUrl, CfgPyPiSimple,
     CfgPyPiNoIndex, CfgExt}

\* Keys of sys_config.repositories, in the order the dict yields them.
RepoNames == <<"r1", "r2", "r3", "r4">>
\* A name no configuration holds.
UnknownName == "r0"

\* sys_config.repositories.items(): up to MaxRepos entries with distinct names.
SysConfigs ==
    UNION {[1..n -> EntryKinds] : n \in 0..MaxRepos}

\* Protocol names an external plugin registers, and the class it registers.
RegisterableTypes == {"ext", "local"}
ExtClass == "ExtRepository"

\* ------------------------------------------------------------- exceptions

Error(type, text, args) == [type |-> type, text |-> text, args |-> args]
NoError == Error("none", "", <<>>)

\* ----------------------------------------------------- backend constructors

\* IntegratedSource.__init__
IntegratedSourceInit(config, id) ==
    [kind |-> "ok",
     obj |-> [class |-> "IntegratedSource", id |-> id, repoConfig |-> config]]

\* A mutation of LocalRepositoryInit: repoUrl is not looked at until the
\* first checkout.
LocalRepositoryInitLazy(config, id) ==
    [kind |-> "ok",
     obj |-> [class |-> "LocalRepository", id |-> id, repoConfig |-> config,
              repoUrl |-> GetPluginProperty(config, "repoUrl")]]

\* LocalRepository.__init__
LocalRepositoryInit(config, id) ==
    LET repoUrl == GetPluginProperty(config, "repoUrl")
    IN  IF repoUrl = None \/ repoUrl = <<>>
        THEN [kind |-> "error",
              error |-> Error("EConfigParse",
                              "Missing required property in local repository config",
                              <<"repoUrl">>)]
        ELSE [kind |-> "ok",
              obj |-> [class |-> "LocalRepository", id |-> id,
                       repoConfig |-> config, repoUrl |-> repoUrl]]

\* GitRepository.__init__
GitRepositoryInit(config, id) ==
    LET repoUrlProp == GetPluginProperty(config, "repoUrl")
        repoUrl == UrlParse(repoUrlProp)
        credentials == GetCredentials(repoUrl, config)
    IN  IF repoUrlProp = None \/ repoUrlProp = <<>>
        THEN [kind |-> "error",
              error |-> Error("EConfigParse",
                              "Missing required property in Git repository config",
                              <<"repoUrl">>)]
        ELSE [kind |-> "ok",
              obj |-> [class |-> "GitRepository", id |-> id, repoConfig |-> config,
                       repoUrl |-> ApplyCredentials(repoUrl, credentials)]]

\* PyPiRepository.__init__
PyPiRepositoryInit(config, id) ==
    LET pipIndex == GetPluginProperty(config, "pipIndex")
        pipIndexUrl == GetPluginProperty(config, "pipIndexUrl")
        pipSimpleFormat == GetPluginProperty(config, "pipSimpleFormat")
    IN  IF pipIndex = None /\ pipIndexUrl = None
        THEN [kind |-> "error",
              error |-> Error("EConfigParse",
                              "Neither pipIndex nor pipIndexUrl is set in PyPi repository config",
                              <<"pipIndex", "pipIndexUrl">>)]
        ELSE [kind |-> "ok",
              obj |-> [class |-> "PyPiRepository", id |-> id, repoConfig |-> config,
                       pipIndex |-> pipIndex, pipIndexUrl |-> pipIndexUrl,
                       pipSimpleFormat |-> pipSimpleFormat]]

\* The constructor of an externally registered backend class.
ExtRepositoryInit(config, id) ==
    [kind |-> "ok",
     obj |-> [class |-> ExtClass, id |-> id, repoConfig |-> config]]

\* loader_class(repo_config): the call of the class the registry holds.
LoaderClassCall(class, config, id) ==
    CASE class = "IntegratedSource" -> IntegratedSourceInit(config, id)
      [] class = "LocalRepository" -> LocalRepositoryInit(config, id)
      [] class = "GitRepository" -> GitRepositoryInit(config, id)
      [] class = "PyPiRepository" -> PyPiRepositoryInit(config, id)
      [] OTHER -> ExtRepositoryInit(config, id)

\* RepositoryManager.__repo_types as the class body seeds it.
BuiltinRepoTypes ==
    [t \in {"integrated", "local", "git", "pypi"} |->
        CASE t = "integrated" -> "IntegratedSource"
          [] t = "local" -> "LocalRepository"
          [] t = "git" -> "GitRepository"
          [] OTHER -> "PyPiRepository"]

\* ------------------------------------------------------------------ inputs

\* Versions (tags): Version10 exists on the remote, Version20 does not.
Version10 == <<"1", ".", "0">>
Version20 == <<"2", ".", "0">>
RemoteVersions == {Version10}

PackageName == <<"m", "-", "p">>

\* _meta.ModelDefinition values the caller passes (the ArtifactRef).
ModelDefs ==
    {[repository |-> "r1", packageGroup |-> <<"g">>, package |-> PackageName,
      version |-> v, path |-> <<"s">>] : v \in {Version10, Version20}}

\* The artifacts of the checkouts and one more of the first version: another
\* package, at another path of its repository.
ArtifactRefs ==
    ModelDefs \cup
    {[repository |-> "r1", packageGroup |-> <<"g">>, package |-> <<"o">>,
      version |-> Version10, path |-> <<"t">>]}

NoModelDef ==
    [repository |-> "", packageGroup |-> <<>>, package |-> <<>>,
     version |-> <<>>, path |-> <<>>]

\* Checkout directories the caller supplies.
Dirs == {<<"/", "a">>, <<"/", "b">>}

\* pathlib: Path(a).joinpath(b); an absolute b replaces a.
JoinPath(a, b) ==
    IF Len(b) > 0 /\ b[1] = "/" THEN b
    ELSE IF b = <<>> THEN a
    ELSE IF Len(a) > 0 /\ a[Len(a)] = "/" THEN a \o b
    ELSE a \o <<"/">> \o b

\* --------------------------------------------------------------- the state

VARIABLES
    repoTypes,      \* RepositoryManager.__repo_types: protocol -> loader class
    hasMgr,         \* a RepositoryManager has been constructed
    loaders,        \* the manager's _loaders: repository name -> backend
    ctorCalls,      \* the repositories whose backend constructor the manager's
                    \* __init__ called, in call order
    mgrCall,        \* the last RepositoryManager(sys_config) call: its
                    \* sys_config and the registry it ran against
    mgrError,       \* what the last RepositoryManager(...) raised
    lookup,         \* what the last get_repository call returned or raised
    repo,           \* the backend the caller holds
    calls,          \* do_checkout calls made so far
    modelDef,       \* model_def of the current do_checkout call
    checkoutDir,    \* checkout_dir of the current do_checkout call
    result,         \* what the last do_checkout returned or raised
    isWindows,      \* _util.is_windows()
    gitPc,          \* where GitRepository.do_checkout stands
    gitStep,        \* index of git_cmd in git_cmds
    invocations,    \* the sp.run calls of the current do_checkout, in order
    log,            \* the records written to self._log by the current call
    fs,             \* the filesystem: what each checkout directory holds
    pyPc,           \* where PyPiRepository.do_checkout stands
    requests,       \* the requests.get calls of the current do_checkout
    selected,       \* (package_filename, package_url) the index query returned
    extracted,      \* download_whl.extractall ran in the current call
    credPc,         \* which of the credential helpers have been called
    credUrl,        \* url of the _get_credentials / _apply_credentials calls
    credConfig,     \* plugin_config of the _get_credentials call
    credOut,        \* what _get_credentials(url, plugin_config) returned
    credArg,        \* credentials of the _apply_credentials call
    credApplied,    \* what _apply_credentials(url, credentials) returned
    credAgain,      \* what _get_credentials returned for credApplied
    credSecond,     \* credentials of the _apply_credentials call on credApplied
    credTwice,      \* what _apply_credentials(credApplied, credentials) returned
    htmlPage,       \* the events feed produces for the text handed to it
    htmlFed,        \* how many of them the handlers have processed
    htmlParser,     \* the _PypiSimpleHtmlParser object
    parked          \* the local state of the do_checkout call of the other
                    \* thread, while the variables above hold the running one

mgrVars == <<repoTypes, hasMgr, loaders, ctorCalls, mgrCall, mgrError, lookup>>
callVars == <<repo, calls, modelDef, checkoutDir, result>>
gitVars == <<isWindows, gitPc, gitStep, invocations>>
ioVars == <<log, fs>>
pypiVars == <<pyPc, requests, selected, extracted>>
credVars ==
    <<credPc, credUrl, credConfig, credOut, credArg, credApplied, credAgain,
      credSecond, credTwice>>
htmlVars == <<htmlPage, htmlFed, htmlParser>>
concVars == <<parked>>

NoRepo == [class |-> "none", id |-> 0, repoConfig |-> CfgIntegrated]
NoLoaders == [n \in {} |-> NoRepo]
NoLookup == [kind |-> "none", name |-> "", obj |-> NoRepo, error |-> NoError]
NoResult == [kind |-> "none", path |-> <<>>, error |-> NoError]

\* A returned path, the returned None, and a raised exception.
PathResult(p) == [kind |-> "path", path |-> p, error |-> NoError]
NoneResult == [kind |-> "absent", path |-> <<>>, error |-> NoError]
Raised(e) == [kind |-> "raised", path |-> <<>>, error |-> e]

\* ------------------------------------------------------- RepositoryManager

\* Mutant of ManagerInitLoop: an entry of an unregistered protocol is
\* skipped instead of raising.
RECURSIVE ManagerInitLoopSkips(_, _, _, _)
ManagerInitLoopSkips(types, config, i, acc) ==
    IF i > Len(config)
    THEN [kind |-> "ok", loaders |-> acc.loaders, ctor |-> acc.ctor,
          error |-> NoError]
    ELSE IF config[i].protocol \notin DOMAIN types
    THEN ManagerInitLoopSkips(types, config, i + 1, acc)
    ELSE LET made == LoaderClassCall(types[config[i].protocol], config[i], i)
         IN  IF made.kind = "error"
             THEN [kind |-> "error", loaders |-> acc.loaders,
                   ctor |-> Append(acc.ctor, RepoNames[i]), error |-> made.error]
             ELSE ManagerInitLoopSkips(types, config, i + 1,
                    [loaders |-> (RepoNames[i] :> made.obj) @@ acc.loaders,
                     ctor |-> Append(acc.ctor, RepoNames[i])])

\* The body of RepositoryManager.__init__: the loop over the configured
\* repositories from entry i on; acc holds the _loaders built so far and
\* the constructor calls made so far.
RECURSIVE ManagerInitLoop(_, _, _, _)
ManagerInitLoop(types, config, i, acc) ==
    IF i > Len(config)
    THEN [kind |-> "ok", loaders |-> acc.loaders, ctor |-> acc.ctor,
          error |-> NoError]
    ELSE IF config[i].protocol \notin DOMAIN types
    THEN [kind |-> "error", loaders |-> acc.loaders, ctor |-> acc.ctor,
          error |-> Error("EModelRepoConfig",
                          "Model repository type is not recognised",
                          <<config[i].protocol>>)]
    ELSE LET made == LoaderClassCall(types[config[i].protocol], config[i], i)
         IN  IF made.kind = "error"
             THEN [kind |-> "error", loaders |-> acc.loaders,
                   ctor |-> Append(acc.ctor, RepoNames[i]), error |-> made.error]
             ELSE ManagerInitLoop(types, config, i + 1,
                    [loaders |-> (RepoNames[i] :> made.obj) @@ acc.loaders,
                     ctor |-> Append(acc.ctor, RepoNames[i])])

\* RepositoryManager.register_repo_type(repo_type, loader_class)
RegisterRepoType(repoType, loaderClass) ==
    /\ repoTypes' = (repoType :> loaderClass) @@ repoTypes
    /\ UNCHANGED <<hasMgr, loaders, ctorCalls, mgrCall, mgrError, lookup>>
    /\ UNCHANGED <<callVars, gitVars, ioVars, pypiVars, credVars, htmlVars, concVars>>

\* A mutation of ManagerInit: the protocols are looked up among the
\* built-in types.
ManagerInitBuiltinOnly(config) ==
    /\ ~hasMgr
    /\ mgrCall' = [made |-> TRUE, config |-> config, types |-> repoTypes]
    /\ LET made == ManagerInitLoop(BuiltinRepoTypes, config, 1,
                                   [loaders |-> NoLoaders, ctor |-> <<>>])
       IN  IF made.kind = "ok"
           THEN /\ hasMgr' = TRUE
                /\ loaders' = made.loaders
                /\ ctorCalls' = made.ctor
                /\ mgrError' = NoError
           ELSE /\ mgrError' = made.error
                /\ UNCHANGED <<hasMgr, loaders, ctorCalls>>
    /\ UNCHANGED <<repoTypes, lookup>>
    /\ UNCHANGED <<callVars, gitVars, ioVars, pypiVars, credVars, htmlVars, concVars>>

\* RepositoryManager(sys_config)
ManagerInit(config) ==
    /\ ~hasMgr
    /\ mgrCall' = [made |-> TRUE, config |-> config, types |-> repoTypes]
    /\ LET made == ManagerInitLoop(repoTypes, config, 1,
                                   [loaders |-> NoLoaders, ctor |-> <<>>])
       IN  IF made.kind = "ok"
           THEN /\ hasMgr' = TRUE
                /\ loaders' = made.loaders
                /\ ctorCalls' = made.ctor
                /\ mgrError' = NoError
           ELSE /\ mgrError' = made.error
                /\ UNCHANGED <<hasMgr, loaders, ctorCalls>>
    /\ UNCHANGED <<repoTypes, lookup>>
    /\ UNCHANGED <<callVars, gitVars, ioVars, pypiVars, credVars, htmlVars, concVars>>

\* Mutant of GetRepository: the backend is constructed on each lookup.
GetRepositoryConstructs(repoName) ==
    /\ hasMgr
    /\ IF repoName \in DOMAIN loaders
       THEN LET made == LoaderClassCall(loaders[repoName].class,
                                        loaders[repoName].repoConfig,
                                        Len(ctorCalls) + 1)
            IN  /\ lookup' = [kind |-> "ok", name |-> repoName,
                              obj |-> made.obj, error |-> NoError]
                /\ repo' = made.obj
                /\ ctorCalls' = Append(ctorCalls, repoName)
       ELSE /\ lookup' = [kind |-> "raised", name |-> repoName, obj |-> NoRepo,
                          error |-> Error("EModelRepoConfig",
                                          "Model repository is unknown or not configured",
                                          <<repoName>>)]
            /\ UNCHANGED <<repo, ctorCalls>>
    /\ UNCHANGED <<repoTypes, hasMgr, loaders, mgrCall, mgrError>>
    /\ UNCHANGED <<calls, modelDef, checkoutDir, result>>
    /\ UNCHANGED <<gitVars, ioVars, pypiVars, credVars, htmlVars, concVars>>

\* Mutant of GetRepository: a lookup that misses caches a default entry.
GetRepositorySetDefault(repoName) ==
    /\ hasMgr
    /\ IF repoName \in DOMAIN loaders
       THEN /\ lookup' = [kind |-> "ok", name |-> repoName,
                          obj |-> loaders[repoName], error |-> NoError]
            /\ repo' = loaders[repoName]
            /\ UNCHANGED loaders
       ELSE /\ lookup' = [kind |-> "raised", name |-> repoName, obj |-> NoRepo,
                          error |-> Error("EModelRepoConfig",
                                          "Model repository is unknown or not configured",
                                          <<repoName>>)]
            /\ loaders' = (repoName :> NoRepo) @@ loaders
            /\ UNCHANGED repo
    /\ UNCHANGED <<repoTypes, hasMgr, ctorCalls, mgrCall, mgrError>>
    /\ UNCHANGED <<calls, modelDef, checkoutDir, result>>
    /\ UNCHANGED <<gitVars, ioVars, pypiVars, credVars, htmlVars, concVars>>

\* RepositoryManager.get_repository(repo_name)
GetRepository(repoName) ==
    /\ hasMgr
    /\ IF repoName \in DOMAIN loaders
       THEN /\ lookup' = [kind |-> "ok", name |-> repoName,
                          obj |-> loaders[repoName], error |-> NoError]
            /\ repo' = loaders[repoName]
       ELSE /\ lookup' = [kind |-> "raised", name |-> repoName, obj |-> NoRepo,
                          error |-> Error("EModelRepoConfig",
                                          "Model repository is unknown or not configured",
                                          <<repoName>>)]
            /\ UNCHANGED repo
    /\ UNCHANGED <<repoTypes, hasMgr, loaders, ctorCalls, mgrCall, mgrError>>
    /\ UNCHANGED <<calls, modelDef, checkoutDir, result>>
    /\ UNCHANGED <<gitVars, ioVars, pypiVars, credVars, htmlVars, concVars>>

\* ------------------------------------------- Integrated and Local backends

\* IntegratedSource.checkout_key
IntegratedCheckoutKey(self, md) == "trac_integrated"

\* IntegratedSource.package_path
IntegratedPackagePath(self, md, dir) == NoneResult

\* IntegratedSource.do_checkout
IntegratedDoCheckout(md, dir) ==
    /\ repo.class = "IntegratedSource"
    /\ calls < MaxCalls
    /\ calls' = calls + 1
    /\ modelDef' = md
    /\ checkoutDir' = dir
    /\ result' = IntegratedPackagePath(repo, md, dir)
    /\ UNCHANGED repo
    /\ UNCHANGED <<mgrVars, gitVars, ioVars, pypiVars, credVars, htmlVars, concVars>>

\* LocalRepository.checkout_key
LocalCheckoutKey(self, md) == "trac_local"

\* A mutation of LocalPackagePath: the path lies in the checkout directory.
LocalPackagePathInCheckoutDir(self, md, dir) == PathResult(JoinPath(dir, md.path))

\* LocalRepository.package_path
LocalPackagePath(self, md, dir) == PathResult(JoinPath(self.repoUrl, md.path))

\* LocalRepository.do_checkout
LocalDoCheckout(md, dir) ==
    /\ repo.class = "LocalRepository"
    /\ calls < MaxCalls
    /\ calls' = calls + 1
    /\ modelDef' = md
    /\ checkoutDir' = dir
    /\ result' = LocalPackagePath(repo, md, dir)
    /\ UNCHANGED repo
    /\ UNCHANGED <<mgrVars, gitVars, ioVars, pypiVars, credVars, htmlVars, concVars>>

\* ------------------------------------------------------------- filesystem

\* What a checkout directory holds: whether it is a git repository, the URL
\* of its remote 'origin', FETCH_HEAD, the version of the working tree, and
\* the wheel unpacked into it.
EmptyDir ==
    [inited |-> FALSE, origin |-> None, fetchHead |-> None, head |-> None,
     unpacked |-> None]

\* The files below the directory the Local backend's repoUrl names, and the
\* files of the commit a version of the Git remote names, as paths relative
\* to the root.
LocalTree == {<<"s">>}
RemoteTree(version) == {<<"s">>}

\* The path p exists in the filesystem files: it is a checkout directory, a
\* file of the local repository, or a file of the commit that is checked
\* out in a checkout directory.
PathExists(files, p) ==
    \/ p \in Dirs
    \/ \E q \in LocalTree : p = JoinPath(LocalBase, q)
    \/ \E d \in Dirs :
        /\ files[d].head # None
        /\ \E q \in RemoteTree(files[d].head) : p = JoinPath(d, q)

\* ------------------------------------------------------------------ logging

LogRecord(level, text, args) == [level |-> level, text |-> text, args |-> args]

\* sep.join(words)
RECURSIVE JoinWith(_, _)
JoinWith(sep, words) ==
    IF words = <<>> THEN <<>>
    ELSE IF Len(words) = 1 THEN words[1]
    ELSE words[1] \o sep \o JoinWith(sep, Tail(words))

\* ' '.join(words)
Join(words) == JoinWith(<<" ">>, words)

\* map(f, words) for f = _util.log_safe
MapLogSafe(words) == [i \in 1..Len(words) |-> LogSafe(words[i])]

\* ------------------------------------------------------------ Git backend

\* GitRepository.GIT_TIMEOUT_SECONDS
GIT_TIMEOUT_SECONDS == 30

\* GitRepository.checkout_key
GitCheckoutKey(self, md) == md.version

\* GitRepository.package_path
GitPackagePath(self, md, dir) == PathResult(JoinPath(dir, md.path))

\* git_cli of do_checkout; a word such as "git" is one element.
GitCli(dir, windows) ==
    << <<"git">>, <<"-C">>, dir >>
        \o (IF windows THEN << <<"-c">>, <<"core.longpaths=true">> >> ELSE <<>>)

\* git_cmds of do_checkout
GitCmds(self, md) ==
    << << <<"init">> >>,
       << <<"remote">>, <<"add">>, <<"origin">>, GetUrl(self.repoUrl) >>,
       << <<"fetch">>, <<"--depth=1">>, <<"origin">>, md.version >>,
       << <<"reset">>, <<"--hard">>, <<"FETCH_HEAD">> >> >>

\* How one sp.run of a step can end: exit code 0, a non-zero exit code, or
\* the expiry of the timeout (sp.run raises subprocess.TimeoutExpired).
\* 'remote add origin' cannot succeed when the directory has an origin, and
\* no fetch of a version the remote does not hold succeeds.
GitOutcomes(step, d, md) ==
    CASE step = 2 /\ d.origin # None -> {"exit1", "timeout"}
      [] step = 3 /\ md.version \notin RemoteVersions -> {"exit1", "timeout"}
      [] OTHER -> {"exit0", "exit1", "timeout"}

\* What a command that exits 0 leaves in the checkout directory.
GitEffect(step, d, self, md) ==
    CASE step = 1 -> [d EXCEPT !.inited = TRUE]
      [] step = 2 -> [d EXCEPT !.origin = GetUrl(self.repoUrl)]
      [] step = 3 -> [d EXCEPT !.fetchHead = md.version]
      [] OTHER -> [d EXCEPT !.head = d.fetchHead]

\* A mutation of SpRun: git runs in the working directory of the process,
\* the same for every call, and not in checkout_dir.
SpRunInCwd(outcome, attempt) ==
    LET cwd == <<"/", "a">>
    IN  /\ outcome \in GitOutcomes(gitStep, fs[cwd], modelDef)
        /\ invocations' = Append(invocations,
                [step |-> gitStep, attempt |-> attempt, exit |-> outcome,
                 argv |-> GitCli(checkoutDir, isWindows)
                            \o GitCmds(repo, modelDef)[gitStep],
                 cwd |-> cwd, timeout |-> GIT_TIMEOUT_SECONDS])
        /\ fs' = IF outcome = "exit0"
                 THEN [fs EXCEPT ![cwd] = GitEffect(gitStep, fs[cwd], repo, modelDef)]
                 ELSE fs

\* cmd_result = sp.run(cmd, cwd=checkout_dir, ..., timeout=GIT_TIMEOUT_SECONDS)
SpRun(outcome, attempt) ==
    /\ outcome \in GitOutcomes(gitStep, fs[checkoutDir], modelDef)
    /\ invocations' = Append(invocations,
            [step |-> gitStep, attempt |-> attempt, exit |-> outcome,
             argv |-> GitCli(checkoutDir, isWindows)
                        \o GitCmds(repo, modelDef)[gitStep],
             cwd |-> checkoutDir, timeout |-> GIT_TIMEOUT_SECONDS])
    /\ fs' = IF outcome = "exit0"
             THEN [fs EXCEPT ![checkoutDir] =
                        GitEffect(gitStep, fs[checkoutDir], repo, modelDef)]
             ELSE fs

\* Mutant of GitStepDone: a failed command does not end the checkout.
GitStepDoneKeepGoing(logged, outcome) ==
    LET withOut == Append(logged, LogRecord("info", "stdout", <<>>))
    IN  IF gitStep < Len(GitCmds(repo, modelDef))
        THEN /\ log' = Append(withOut, LogRecord("info", "stderr", <<>>))
             /\ gitStep' = gitStep + 1
             /\ gitPc' = "run"
             /\ UNCHANGED result
        ELSE /\ log' = Append(withOut, LogRecord("info", "stderr", <<>>))
             /\ result' = GitPackagePath(repo, modelDef, checkoutDir)
             /\ gitPc' = "idle"
             /\ UNCHANGED gitStep

\* The rest of the loop body once cmd_result is the result of the step:
\* the output is logged, a non-zero exit code raises, exit code 0 goes on
\* to the next command or returns the package path.
GitStepDone(logged, outcome) ==
    LET withOut == Append(logged, LogRecord("info", "stdout", <<>>))
    IN  IF outcome = "exit0"
        THEN IF gitStep < Len(GitCmds(repo, modelDef))
             THEN /\ log' = Append(withOut, LogRecord("info", "stderr", <<>>))
                  /\ gitStep' = gitStep + 1
                  /\ gitPc' = "run"
                  /\ UNCHANGED result
             ELSE /\ log' = Append(Append(withOut, LogRecord("info", "stderr", <<>>)),
                                   LogRecord("info", "Git checkout succeeded for",
                                             <<modelDef.package, modelDef.version>>))
                  /\ result' = GitPackagePath(repo, modelDef, checkoutDir)
                  /\ gitPc' = "idle"
                  /\ UNCHANGED gitStep
        ELSE /\ log' = Append(Append(withOut, LogRecord("error", "stderr", <<>>)),
                              LogRecord("error", "Git checkout failed for",
                                        <<modelDef.package, modelDef.version>>))
             /\ result' = Raised(Error("EModelRepo", "Git checkout failed for",
                                       <<modelDef.package, modelDef.version>>))
             /\ gitPc' = "idle"
             /\ UNCHANGED gitStep

\* subprocess.TimeoutExpired leaves do_checkout: nothing in it catches it.
GitTimedOut(logged) ==
    /\ log' = logged
    /\ result' = Raised(Error("TimeoutExpired", "timed out after seconds",
                              <<GIT_TIMEOUT_SECONDS>>))
    /\ gitPc' = "idle"
    /\ UNCHANGED gitStep

\* A mutation of GitDoCheckout: the command loop resumes at the command the
\* previous call stopped at.
GitDoCheckoutResumes(md, dir) ==
    /\ repo.class = "GitRepository"
    /\ gitPc = "idle"
    /\ calls < MaxCalls
    /\ calls' = calls + 1
    /\ modelDef' = md
    /\ checkoutDir' = dir
    /\ result' = NoResult
    /\ log' = << LogRecord("info", "Git checkout: repo, group, package, version",
                           <<md.packageGroup, md.package, md.version>>),
                 LogRecord("info", "Checkout location", <<dir>>) >>
    /\ invocations' = <<>>
    /\ gitStep' = gitStep
    /\ gitPc' = IF isWindows THEN "takeown" ELSE "run"
    /\ UNCHANGED <<repo, isWindows, fs>>
    /\ UNCHANGED <<mgrVars, pypiVars, credVars, htmlVars, concVars>>

\* GitRepository.do_checkout, up to the command loop.
GitDoCheckout(md, dir) ==
    /\ repo.class = "GitRepository"
    /\ gitPc = "idle"
    /\ calls < MaxCalls
    /\ calls' = calls + 1
    /\ modelDef' = md
    /\ checkoutDir' = dir
    /\ result' = NoResult
    /\ log' = << LogRecord("info", "Git checkout: repo, group, package, version",
                           <<md.packageGroup, md.package, md.version>>),
                 LogRecord("info", "Checkout location", <<dir>>) >>
    /\ invocations' = <<>>
    /\ gitStep' = 1
    /\ gitPc' = IF isWindows THEN "takeown" ELSE "run"
    /\ UNCHANGED <<repo, isWindows, fs>>
    /\ UNCHANGED <<mgrVars, pypiVars, credVars, htmlVars, concVars>>

\* The Windows workaround: subprocess.run("takeown ...") in a try block;
\* whatever it raises is logged and the checkout goes on.
GitTakeown(raises) ==
    /\ gitPc = "takeown"
    /\ log' = LET fixing == Append(log, LogRecord("info",
                                "Fixing filesystem permissions for", <<checkoutDir>>))
              IN  IF raises
                  THEN Append(fixing, LogRecord("info",
                                "Failed to fix filesystem permissions", <<>>))
                  ELSE fixing
    /\ gitPc' = "run"
    /\ UNCHANGED <<isWindows, gitStep, invocations, fs>>
    /\ UNCHANGED <<mgrVars, callVars, pypiVars, credVars, htmlVars, concVars>>

\* Mutant of GitRun: a non-zero exit code is not retried.
GitRunNoRetry(outcome) ==
    /\ gitPc = "run"
    /\ SpRun(outcome, 1)
    /\ LET logged == Append(log, LogRecord("info", "git",
                        <<Join(MapLogSafe(GitCmds(repo, modelDef)[gitStep]))>>))
       IN  IF outcome = "timeout"
           THEN GitTimedOut(logged)
           ELSE GitStepDone(logged, outcome)
    /\ UNCHANGED <<repo, calls, modelDef, checkoutDir, isWindows>>
    /\ UNCHANGED <<mgrVars, pypiVars, credVars, htmlVars, concVars>>

\* The first sp.run of a command: the command is logged through log_safe.
GitRun(outcome) ==
    /\ gitPc = "run"
    /\ SpRun(outcome, 1)
    /\ LET logged == Append(log, LogRecord("info", "git",
                        <<Join(MapLogSafe(GitCmds(repo, modelDef)[gitStep]))>>))
       IN  CASE outcome = "timeout" -> GitTimedOut(logged)
             [] outcome = "exit1" ->
                    /\ log' = logged
                    /\ gitPc' = "retry"
                    /\ UNCHANGED <<gitStep, result>>
             [] OTHER -> GitStepDone(logged, outcome)
    /\ UNCHANGED <<repo, calls, modelDef, checkoutDir, isWindows>>
    /\ UNCHANGED <<mgrVars, pypiVars, credVars, htmlVars, concVars>>

\* A mutation of GitRetry: a retry that exits non-zero is retried again.
GitRetryAgain(outcome) ==
    /\ gitPc = "retry"
    /\ SpRun(outcome, 2)
    /\ LET logged == Append(log, LogRecord("warning", "git (retrying)",
                        <<Join(GitCmds(repo, modelDef)[gitStep])>>))
       IN  CASE outcome = "timeout" -> GitTimedOut(logged)
             [] outcome = "exit1" ->
                    /\ log' = logged
                    /\ gitPc' = "retry"
                    /\ UNCHANGED <<gitStep, result>>
             [] OTHER -> GitStepDone(logged, outcome)
    /\ UNCHANGED <<repo, calls, modelDef, checkoutDir, isWindows>>
    /\ UNCHANGED <<mgrVars, pypiVars, credVars, htmlVars, concVars>>

\* The retry after a non-zero exit code: time.sleep(1), the warning, and the
\* second sp.run of the same command.
GitRetry(outcome) ==
    /\ gitPc = "retry"
    /\ SpRun(outcome, 2)
    /\ LET logged == Append(log, LogRecord("warning", "git (retrying)",
                        <<Join(GitCmds(repo, modelDef)[gitStep])>>))
       IN  IF outcome = "timeout"
           THEN GitTimedOut(logged)
           ELSE GitStepDone(logged, outcome)
    /\ UNCHANGED <<repo, calls, modelDef, checkoutDir, isWindows>>
    /\ UNCHANGED <<mgrVars, pypiVars, credVars, htmlVars, concVars>>

\* ---------------------------------------------- _PypiSimpleHtmlParser

\* What html.parser.HTMLParser.feed hands to the handlers: start tags with
\* their attributes (name, value or None), end tags and text.
StartTag(tag, attrs) == [type |-> "start", tag |-> tag, attrs |-> attrs, data |-> <<>>]
EndTag(tag) == [type |-> "end", tag |-> tag, attrs |-> <<>>, data |-> <<>>]
Text(data) == [type |-> "data", tag |-> "", attrs |-> <<>>, data |-> data]
Attr(name, value) == [name |-> name, value |-> value]

\* s.split(c)
RECURSIVE Split(_, _)
Split(s, c) ==
    IF Find(s, c) = 0 THEN <<s>>
    ELSE <<SubSeq(s, 1, Find(s, c) - 1)>> \o Split(SubSeq(s, Find(s, c) + 1, Len(s)), c)

IsSpace(c) == c \in {" ", "\n", "\t"}

\* s.strip()
RECURSIVE Strip(_)
Strip(s) ==
    IF s = <<>> THEN s
    ELSE IF IsSpace(s[1]) THEN Strip(Tail(s))
    ELSE IF IsSpace(s[Len(s)]) THEN Strip(SubSeq(s, 1, Len(s) - 1))
    ELSE s

\* urllib.parse.urljoin(base, url) for an absolute URL, a path from the
\* root, and a path relative to the base's directory.
UrlJoin(base, url) ==
    LET b == UrlParse(base)
    IN  IF Contains(url, <<":", "/", "/">>) THEN url
        ELSE IF Len(url) > 0 /\ url[1] = "/"
        THEN GetUrl([b EXCEPT !.path = url])
        ELSE GetUrl([b EXCEPT !.path = SubSeq(b.path, 1, RFind(b.path, "/")) \o url])

\* _PypiSimpleHtmlParser.__init__; raised tells that a handler raised.
HtmlParserInit(packageName, packageUrl) ==
    [packageUrl |-> packageUrl, stack |-> <<>>, data |-> None, raised |-> FALSE,
     response |-> [apiVersion |-> None, name |-> packageName, files |-> <<>>]]

AttrsNamed(attrs, name) ==
    LET Named(a) == a.name = name
    IN  SelectSeq(attrs, Named)

\* _PypiSimpleHtmlParser._record_meta
HtmlRecordMeta(parser, attrs) ==
    IF Len(AttrsNamed(attrs, "content")) = 1
    THEN [parser EXCEPT !.response.apiVersion = AttrsNamed(attrs, "content")[1].value]
    ELSE parser

\* A mutation of HtmlRecordLink: the fragment stays in the URL.
HtmlRecordLinkKeepsFragment(parser, filename, attrs) ==
    LET hrefAttr == AttrsNamed(attrs, "href")
        yankedAttr == AttrsNamed(attrs, "data-yanked")
        href == hrefAttr[1].value
        sep == Find(href, "#")
        hashInfo == IF sep > 0 THEN Split(SubSeq(href, sep + 1, Len(href)), "=") ELSE <<>>
    IN  IF Len(hrefAttr) # 1 THEN parser
        ELSE [parser EXCEPT !.response.files = Append(@,
                [filename |-> filename,
                 url |-> UrlJoin(parser.packageUrl, href),
                 hashes |-> IF Len(hashInfo) = 2 THEN {<<hashInfo[1], hashInfo[2]>>} ELSE {},
                 yanked |-> Len(yankedAttr) > 0])]

\* _PypiSimpleHtmlParser._record_link
HtmlRecordLink(parser, filename, attrs) ==
    LET hrefAttr == AttrsNamed(attrs, "href")
        yankedAttr == AttrsNamed(attrs, "data-yanked")
        href == hrefAttr[1].value
        sep == Find(href, "#")
        hashInfo == IF sep > 0 THEN Split(SubSeq(href, sep + 1, Len(href)), "=") ELSE <<>>
        hrefUrl == IF sep > 0 THEN SubSeq(href, 1, sep - 1) ELSE href
    IN  IF Len(hrefAttr) # 1 THEN parser
        ELSE [parser EXCEPT !.response.files = Append(@,
                [filename |-> filename,
                 url |-> UrlJoin(parser.packageUrl, hrefUrl),
                 hashes |-> IF Len(hashInfo) = 2 THEN {<<hashInfo[1], hashInfo[2]>>} ELSE {},
                 yanked |-> Len(yankedAttr) > 0])]

\* _PypiSimpleHtmlParser.handle_starttag
HtmlHandleStartTag(parser, tag, attrs) ==
    LET pushed == [parser EXCEPT !.stack = Append(@, [tag |-> tag, attrs |-> attrs]),
                                 !.data = None]
    IN  IF tag = "meta" /\ \E i \in 1..Len(attrs) :
                attrs[i].name = "name" /\ attrs[i].value = <<"pypi:repository-version">>
        THEN HtmlRecordMeta(pushed, attrs)
        ELSE pushed

\* The while loop of handle_endtag: pop until the popped tag is the closed
\* one or the stack is empty.
RECURSIVE HtmlPopUntil(_, _, _)
HtmlPopUntil(stack, stackTag, tag) ==
    IF stackTag # tag /\ Len(stack) > 0
    THEN HtmlPopUntil(SubSeq(stack, 1, Len(stack) - 1), stack[Len(stack)].tag, tag)
    ELSE stack

\* _PypiSimpleHtmlParser.handle_endtag; self._stack.pop() of an empty list
\* raises IndexError.
HtmlHandleEndTag(parser, tag) ==
    IF parser.stack = <<>> THEN [parser EXCEPT !.raised = TRUE]
    ELSE LET top == parser.stack[Len(parser.stack)]
             rest == SubSeq(parser.stack, 1, Len(parser.stack) - 1)
             linked == IF tag = "a" /\ top.tag = "a" /\ parser.data # None
                       THEN HtmlRecordLink(parser, parser.data, top.attrs)
                       ELSE parser
         IN  [linked EXCEPT !.stack = HtmlPopUntil(rest, top.tag, tag)]

\* _PypiSimpleHtmlParser.handle_data
HtmlHandleData(parser, data) ==
    [parser EXCEPT !.data = IF Len(Strip(data)) > 0 THEN Strip(data) ELSE None]

HtmlHandle(parser, event) ==
    CASE event.type = "start" -> HtmlHandleStartTag(parser, event.tag, event.attrs)
      [] event.type = "end" -> HtmlHandleEndTag(parser, event.tag)
      [] OTHER -> HtmlHandleData(parser, event.data)

\* package_parser.feed(text): the handlers run in document order until one
\* raises.
RECURSIVE HtmlFeed(_, _)
HtmlFeed(parser, events) ==
    IF events = <<>> \/ parser.raised THEN parser
    ELSE HtmlFeed(HtmlHandle(parser, Head(events)), Tail(events))

\* ------------------------------------------------------------ PyPI backend

\* PyPiRepository.PIP_SIMPLE_TYPE_JSON, PIP_SIMPLE_TYPE_HTML
PIP_SIMPLE_TYPE_JSON == <<"application/vnd.pypi.simple.v1+json">>
PIP_SIMPLE_TYPE_HTML == <<"text/html">>

\* PyPiRepository.checkout_key
PyPiCheckoutKey(self, md) == md.version

\* PyPiRepository.package_path
PyPiPackagePath(self, md, dir) == PathResult(dir)

\* PyPiRepository._pypi_simple_content_type
PyPiSimpleContentType(self) ==
    IF self.pipSimpleFormat = <<"json">> THEN PIP_SIMPLE_TYPE_JSON
    ELSE IF self.pipSimpleFormat = <<"html">> THEN PIP_SIMPLE_TYPE_HTML
    ELSE PIP_SIMPLE_TYPE_JSON

\* d.get(key) or default
GetOr(value, default) ==
    IF value = None \/ value = <<>> THEN default ELSE value

DotWhl == <<".", "w", "h", "l">>

\* file_pattern.match(filename) for the pattern
\* ^{name_pattern}-{version_pattern}-(?P<target>.*)\.whl of
\* _pypi_simple_parse_response: re.match anchors the pattern at the start of
\* the filename only; a '.' of the name pattern is not escaped and matches
\* any character, a '.' of the version is escaped; the target group is
\* greedy, so it ends at the last ".whl" of the filename.
FilePatternPrefixLen(namePattern, version) == Len(namePattern) + Len(version) + 2

FilePatternWhlAt(namePattern, version, filename) ==
    {i \in (FilePatternPrefixLen(namePattern, version) + 1)..(Len(filename) - 3) :
        SubSeq(filename, i, i + 3) = DotWhl}

FilePatternMatch(namePattern, version, filename) ==
    LET n == Len(namePattern)
        v == Len(version)
    IN  /\ Len(filename) >= n + v + 2
        /\ \A i \in 1..n : namePattern[i] = "." \/ filename[i] = namePattern[i]
        /\ filename[n + 1] = "-"
        /\ \A i \in 1..v : filename[n + 1 + i] = version[i]
        /\ filename[n + v + 2] = "-"
        /\ FilePatternWhlAt(namePattern, version, filename) # {}

\* match.group("target")
FilePatternTarget(namePattern, version, filename) ==
    LET at == FilePatternWhlAt(namePattern, version, filename)
        last == CHOOSE i \in at : \A j \in at : j <= i
    IN  SubSeq(filename, FilePatternPrefixLen(namePattern, version) + 1, last - 1)

\* PyPiRepository._pypi_simple_parse_response(model_def, package_obj)
PyPiSimpleParseResponse(md, packageObj) ==
    LET packageName == GetOr(packageObj.name, md.package)
        files == packageObj.files
        namePattern == Replace(packageName, "-", "_")
        IsMatch(fileInfo) ==
            /\ FilePatternMatch(namePattern, md.version, GetOr(fileInfo.filename, <<>>))
            /\ ~fileInfo.yanked
        found == SelectSeq(files, IsMatch)
        matches == [i \in 1..Len(found) |->
                        [filename |-> found[i].filename, url |-> found[i].url,
                         target |-> FilePatternTarget(namePattern, md.version,
                                                      found[i].filename)]]
    IN  IF Len(matches) = 0
        THEN [kind |-> "error",
              error |-> Error("EModelRepo", "No package found for version",
                              <<packageName, md.version>>)]
        ELSE IF Len(matches) > 1
        THEN [kind |-> "error",
              error |-> Error("EModelRepo", "Multiple packages found for version (targets)",
                              <<packageName, md.version,
                                JoinWith(<<",", " ">>,
                                         [i \in 1..Len(matches) |-> matches[i].target])>>)]
        ELSE [kind |-> "ok", filename |-> matches[1].filename, url |-> matches[1].url,
              target |-> matches[1].target]

\* A mutation of PyPiJsonSelect: the urls are not filtered by package type.
PyPiJsonSelectAny(md, packageObj) ==
    LET bdistUrls == packageObj.urls
    IN  IF Len(bdistUrls) = 0
        THEN [kind |-> "error",
              error |-> Error("EModelRepo", "No compatible packages found", <<>>)]
        ELSE IF Len(bdistUrls) > 1
        THEN [kind |-> "error",
              error |-> Error("EModelRepo", "Multiple compatible packages found", <<>>)]
        ELSE [kind |-> "ok", filename |-> bdistUrls[1].filename, url |-> bdistUrls[1].url]

\* The part of PyPiRepository._pypi_json_query after package_req.json()
PyPiJsonSelect(md, packageObj) ==
    LET IsWheel(d) == d.packagetype = "bdist_wheel"
        bdistUrls == SelectSeq(packageObj.urls, IsWheel)
    IN  IF Len(bdistUrls) = 0
        THEN [kind |-> "error",
              error |-> Error("EModelRepo", "No compatible packages found", <<>>)]
        ELSE IF Len(bdistUrls) > 1
        THEN [kind |-> "error",
              error |-> Error("EModelRepo", "Multiple compatible packages found", <<>>)]
        ELSE [kind |-> "ok", filename |-> bdistUrls[1].filename, url |-> bdistUrls[1].url]

\* package_url of _pypi_package_query: the root URL with the credentials
\* applied and SIMPLE_PACKAGE_PATH "{}/{}/" or JSON_PACKAGE_PATH
\* "{}/{}/{}/json" formatted into its path.
PyPiPackageUrl(simple, rootUrl, credentials, md) ==
    LET root == ApplyCredentials(rootUrl, credentials)
    IN  [root EXCEPT !.path =
            IF simple
            THEN root.path \o <<"/">> \o md.package \o <<"/">>
            ELSE root.path \o <<"/">> \o md.package \o <<"/">> \o md.version
                    \o <<"/", "json">>]

\* The root URL and the credentials of the index the backend queries.
PyPiRootUrl(self) ==
    UrlParse(IF self.pipIndexUrl # None THEN self.pipIndexUrl ELSE self.pipIndex)

PyPiCredentials(self) == GetCredentials(PyPiRootUrl(self), self.repoConfig)

NoSelection == [filename |-> <<>>, url |-> UrlParse(<<>>)]

\* A requests.get call: its URL, its accept header, and the response it
\* returned once it has returned (status 0 until then).
Request(kind, url, accept) ==
    [kind |-> kind, url |-> url, accept |-> accept, response |-> [status |-> 0]]

\* The request list with the response to the last request.
Answered(reqs, resp) == [reqs EXCEPT ![Len(reqs)].response = resp]

\* PyPiRepository.do_checkout up to the requests.get of the index query
\* (_pypi_simple_query or _pypi_json_query, and _pypi_package_query).
PyPiDoCheckout(md, dir) ==
    /\ repo.class = "PyPiRepository"
    /\ pyPc = "idle"
    /\ calls < MaxCalls
    /\ calls' = calls + 1
    /\ modelDef' = md
    /\ checkoutDir' = dir
    /\ result' = NoResult
    /\ selected' = NoSelection
    /\ extracted' = FALSE
    /\ LET simple == repo.pipIndexUrl # None
           url == PyPiPackageUrl(simple, PyPiRootUrl(repo), PyPiCredentials(repo), md)
       IN  /\ log' = << LogRecord("info", "PyPI checkout: repo, package, version",
                                  <<md.package, md.version>>),
                        LogRecord("info", "Checkout location", <<dir>>),
                        LogRecord("info", "Query package", <<md.package>>),
                        LogRecord("info", "GET", <<LogSafeUrl(url)>>) >>
           /\ requests' = << Request("index", GetUrl(url),
                                     IF simple THEN PyPiSimpleContentType(repo)
                                     ELSE <<"application/json">>) >>
    /\ pyPc' = "query"
    /\ UNCHANGED <<repo, fs>>
    /\ UNCHANGED <<mgrVars, gitVars, credVars, htmlVars, concVars>>

\* A mutation of PyPiRaise: the error is recorded and do_checkout goes on to
\* the download.
PyPiRaiseGoesOn(logged, e) ==
    /\ log' = logged
    /\ result' = Raised(e)
    /\ pyPc' = "download"
    /\ UNCHANGED selected

\* do_checkout raises e.
PyPiRaise(logged, e) ==
    /\ log' = logged
    /\ result' = Raised(e)
    /\ pyPc' = "idle"
    /\ UNCHANGED selected

\* do_checkout after a query that returned (filename, url): the credentials
\* are applied to the URL, and the download request is logged and issued.
PyPiSelect(logged, found, resp) ==
    LET packageUrl == ApplyCredentials(UrlParse(found.url), PyPiCredentials(repo))
    IN  /\ selected' = [filename |-> found.filename, url |-> packageUrl]
        /\ log' = logged \o << LogRecord("info", "Downloading", <<found.filename>>),
                              LogRecord("info", "GET", <<LogSafeUrl(packageUrl)>>) >>
        /\ requests' = Append(Answered(requests, resp),
                              Request("download", GetUrl(packageUrl), None))
        /\ pyPc' = "download"
        /\ UNCHANGED result

\* A mutation of ReceivedContentType: the format that was requested decides.
ReceivedContentTypeRequested(resp) == requests[Len(requests)].accept

\* received_content_type = package_req.headers.get("content-type")
ReceivedContentType(resp) == resp.contentType

\* The rest of _pypi_simple_query / _pypi_json_query once requests.get of
\* the index query has returned resp.
PyPiQuery(resp) ==
    /\ pyPc = "query"
    /\ IF resp.status # 200
       THEN /\ PyPiRaise(Append(log, LogRecord("error", "Package lookup failed",
                                               <<resp.status, resp.reason>>)),
                         Error("EModelRepo", "Package lookup failed",
                               <<resp.status, resp.reason>>))
            /\ requests' = Answered(requests, resp)
       ELSE IF repo.pipIndexUrl # None
       THEN IF ReceivedContentType(resp) = PIP_SIMPLE_TYPE_JSON /\ ~resp.decodes
            THEN /\ PyPiRaise(Append(log, LogRecord("error",
                                        "Invalid response from model repository", <<>>)),
                              Error("EModelRepo",
                                    "Invalid response from model repository", <<>>))
                 /\ requests' = Answered(requests, resp)
            ELSE IF ReceivedContentType(resp) = PIP_SIMPLE_TYPE_JSON
            THEN LET found == PyPiSimpleParseResponse(modelDef, resp.obj)
                 IN  IF found.kind = "ok"
                     THEN PyPiSelect(Append(log, LogRecord("info",
                                "Found package version, target",
                                <<GetOr(resp.obj.name, modelDef.package),
                                  modelDef.version, found.target>>)), found, resp)
                     ELSE /\ PyPiRaise(Append(log, LogRecord("error", found.error.text,
                                                             found.error.args)),
                                       found.error)
                          /\ requests' = Answered(requests, resp)
            ELSE IF ReceivedContentType(resp) = PIP_SIMPLE_TYPE_HTML
            THEN LET parser == HtmlFeed(HtmlParserInit(modelDef.package,
                                            requests[Len(requests)].url), resp.html)
                     found == PyPiSimpleParseResponse(modelDef, parser.response)
                 IN  IF parser.raised
                     THEN /\ PyPiRaise(log, Error("IndexError", "pop from empty list", <<>>))
                          /\ requests' = Answered(requests, resp)
                     ELSE IF found.kind = "ok"
                     THEN PyPiSelect(Append(log, LogRecord("info",
                                "Found package version, target",
                                <<modelDef.package, modelDef.version, found.target>>)),
                                found, resp)
                     ELSE /\ PyPiRaise(Append(log, LogRecord("error", found.error.text,
                                                             found.error.args)),
                                       found.error)
                          /\ requests' = Answered(requests, resp)
            ELSE /\ PyPiRaise(Append(log, LogRecord("error",
                        "Invalid response from package repository: Content type",
                        <<resp.contentType>>)),
                              Error("EModelRepo",
                        "Invalid response from package repository: Content type",
                        <<resp.contentType>>))
                 /\ requests' = Answered(requests, resp)
       ELSE IF ~resp.decodes
       THEN /\ PyPiRaise(log, Error("JSONDecodeError", "", <<>>))
            /\ requests' = Answered(requests, resp)
       ELSE LET found == PyPiJsonSelect(modelDef, resp.obj)
                logged == Append(log, LogRecord("info", "Package summary", <<>>))
            IN  IF found.kind = "ok"
                THEN PyPiSelect(logged, found, resp)
                ELSE /\ PyPiRaise(Append(logged, LogRecord("error", found.error.text,
                                                           found.error.args)),
                                  found.error)
                     /\ requests' = Answered(requests, resp)
    /\ UNCHANGED <<repo, calls, modelDef, checkoutDir, fs, extracted>>
    /\ UNCHANGED <<mgrVars, gitVars, credVars, htmlVars, concVars>>

\* The rest of do_checkout once requests.get of the wheel has returned
\* resp: the status is not looked at; the body is opened as a zip archive
\* (zipfile.BadZipFile when it is none) and extracted into checkout_dir.
PyPiDownload(resp) ==
    /\ pyPc = "download"
    /\ requests' = Answered(requests, resp)
    /\ pyPc' = "idle"
    /\ LET logged == Append(log, LogRecord("info", "Downloaded KB in seconds", <<>>))
       IN  IF ~resp.zip
           THEN /\ log' = logged
                /\ result' = Raised(Error("BadZipFile", "File is not a zip file", <<>>))
                /\ UNCHANGED <<fs, extracted>>
           ELSE /\ fs' = [fs EXCEPT ![checkoutDir].unpacked = selected.filename]
                /\ extracted' = TRUE
                /\ log' = logged \o
                        << LogRecord("info", "Unpacked files", <<>>),
                           LogRecord("info", "PyPI checkout succeeded for",
                                     <<modelDef.package, modelDef.version>>) >>
                /\ result' = PyPiPackagePath(repo, modelDef, checkoutDir)
    /\ UNCHANGED <<repo, calls, modelDef, checkoutDir, selected>>
    /\ UNCHANGED <<mgrVars, gitVars, credVars, htmlVars, concVars>>

\* ------------------------------------------------- what the index answers

\* Wheel filenames for package m-p (m_p in a filename) and version 1.0
\* (Version10; WheelOther is of Version20); "a" and "x" stand for platform targets such as
\* py3-none-any and linux_x86_64.
WheelA == <<"m", "_", "p", "-", "1", ".", "0", "-", "a", ".", "w", "h", "l">>
WheelX == <<"m", "_", "p", "-", "1", ".", "0", "-", "x", ".", "w", "h", "l">>
WheelOther == <<"m", "_", "p", "-", "2", ".", "0", "-", "a", ".", "w", "h", "l">>
WheelDash == <<"m", "-", "p", "-", "1", ".", "0", "-", "a", ".", "w", "h", "l">>
WheelNoDot == <<"m", "_", "p", "-", "1", "x", "0", "-", "a", ".", "w", "h", "l">>
Sdist == <<"m", "_", "p", "-", "1", ".", "0", ".", "t", "g", "z">>
WheelSig == WheelA \o <<".", "a", "s", "c">>

FileUrl(filename) == <<"h", ":", "/", "/", "f", "/">> \o filename

FileInfo(filename, yanked) ==
    [filename |-> filename, url |-> FileUrl(filename), yanked |-> yanked]

\* The file_info entries of a simple-index response.
FileInfos ==
    {FileInfo(WheelA, FALSE), FileInfo(WheelA, TRUE), FileInfo(WheelX, FALSE),
     FileInfo(WheelOther, FALSE), FileInfo(WheelNoDot, FALSE), FileInfo(Sdist, FALSE),
     FileInfo(WheelSig, FALSE)}

\* package_obj of a simple-index response: "name" and "files".
SimpleObjs ==
    {[name |-> n, files |-> f] :
        n \in {None, PackageName},
        f \in UNION {[1..k -> FileInfos] : k \in 0..MaxFiles}}

\* The entries of "urls" of a package-metadata response.
UrlInfos ==
    {[packagetype |-> "bdist_wheel", filename |-> WheelA, url |-> FileUrl(WheelA)],
     [packagetype |-> "bdist_wheel", filename |-> WheelX, url |-> FileUrl(WheelX)],
     [packagetype |-> "sdist", filename |-> Sdist, url |-> FileUrl(Sdist)]}

MetaObjs == {[urls |-> u] : u \in UNION {[1..k -> UrlInfos] : k \in 0..MaxFiles}}

NoObj == [name |-> None, files |-> <<>>, urls |-> <<>>]

\* Pages of an HTML simple index, as the events feed produces for them:
\* anchors whose href is the wheel's name relative to the page, with a
\* '#s=d' hash fragment; a yanked anchor; a page with a stray end tag.
Anchor(filename, yanked) ==
    << StartTag("a", << Attr("href", filename \o <<"#", "s", "=", "d">>) >>
                        \o (IF yanked THEN << Attr("data-yanked", None) >> ELSE <<>>)),
       Text(filename), EndTag("a"), Text(<<"\n">>) >>

HtmlHead ==
    << StartTag("meta", << Attr("name", <<"pypi:repository-version">>),
                           Attr("content", <<"1", ".", "0">>) >>) >>

HtmlPages ==
    {HtmlHead \o Anchor(WheelA, FALSE),
     HtmlHead \o Anchor(WheelA, FALSE) \o Anchor(WheelX, FALSE),
     HtmlHead \o Anchor(WheelA, TRUE) \o Anchor(WheelOther, FALSE),
     << EndTag("p") >> \o Anchor(WheelA, FALSE),
     <<>>}

IndexResponse(status, reason, contentType, decodes, obj) ==
    [status |-> status, reason |-> reason, contentType |-> contentType,
     decodes |-> decodes, obj |-> obj, html |-> <<>>]

HtmlResponse(page) ==
    [status |-> 200, reason |-> "OK", contentType |-> PIP_SIMPLE_TYPE_HTML,
     decodes |-> FALSE, obj |-> NoObj, html |-> page]

\* What requests.get of the index query can return to this backend.
IndexResponses(self) ==
    {IndexResponse(404, "Not Found", <<"text/plain">>, FALSE, NoObj)}
    \cup
    (IF self.pipIndexUrl # None
     THEN {IndexResponse(200, "OK", PIP_SIMPLE_TYPE_JSON, TRUE, o) : o \in SimpleObjs}
          \cup {IndexResponse(200, "OK", PIP_SIMPLE_TYPE_JSON, FALSE, NoObj),
                IndexResponse(200, "OK", <<"text/plain">>, FALSE, NoObj),
                IndexResponse(200, "OK", None, FALSE, NoObj)}
          \cup {HtmlResponse(page) : page \in HtmlPages}
     ELSE {IndexResponse(200, "OK", <<"application/json">>, TRUE, o) : o \in MetaObjs}
          \cup {IndexResponse(200, "OK", <<"text/html">>, FALSE, NoObj)})

\* What requests.get of the wheel can return: a status and a body that is
\* a zip archive or is none.
DownloadResponses ==
    {[status |-> st.status, reason |-> st.reason, zip |-> z] :
        st \in {[status |-> 200, reason |-> "OK"],
                [status |-> 404, reason |-> "Not Found"]},
        z \in BOOLEAN}

\* ------------------------------------------------------- specifications

vars == <<mgrVars, callVars, gitVars, ioVars, pypiVars, credVars, htmlVars, concVars>>

InitIdle ==
    /\ repoTypes = BuiltinRepoTypes
    /\ hasMgr = FALSE
    /\ loaders = NoLoaders
    /\ ctorCalls = <<>>
    /\ mgrCall = [made |-> FALSE, config |-> <<>>, types |-> BuiltinRepoTypes]
    /\ mgrError = NoError
    /\ lookup = NoLookup
    /\ calls = 0
    /\ modelDef = NoModelDef
    /\ checkoutDir = <<>>
    /\ result = NoResult
    /\ gitPc = "idle"
    /\ gitStep = 1
    /\ invocations = <<>>
    /\ log = <<>>
    /\ fs = [d \in Dirs |-> EmptyDir]
    /\ pyPc = "idle"
    /\ requests = <<>>
    /\ selected = NoSelection
    /\ extracted = FALSE

\* No call of a credential helper is traced.
CredIdle ==
    /\ credPc = "off"
    /\ credUrl = UrlParse(<<>>)
    /\ credConfig = CfgIntegrated
    /\ credOut = None
    /\ credArg = None
    /\ credApplied = UrlParse(<<>>)
    /\ credAgain = None
    /\ credSecond = None
    /\ credTwice = UrlParse(<<>>)

\* No parser is fed.
HtmlIdle ==
    /\ htmlPage = <<>>
    /\ htmlFed = 0
    /\ htmlParser = HtmlParserInit(<<>>, <<>>)

\* The local state of a do_checkout call: what the variables of the running
\* call hold.
Frame(md, dir, res, gpc, step, invs, logged, ppc, reqs, sel, extr) ==
    [modelDef |-> md, checkoutDir |-> dir, result |-> res, gitPc |-> gpc,
     gitStep |-> step, invocations |-> invs, log |-> logged, pyPc |-> ppc,
     requests |-> reqs, selected |-> sel, extracted |-> extr]

\* The state of a thread that has not called do_checkout.
NoFrame ==
    Frame(NoModelDef, <<>>, NoResult, "idle", 1, <<>>, <<>>, "idle", <<>>,
          NoSelection, FALSE)

\* There is no other thread.
ConcIdle == parked = NoFrame

\* The manager: the class is loaded, no manager is constructed yet.
InitMgr ==
    /\ InitIdle
    /\ CredIdle
    /\ HtmlIdle
    /\ ConcIdle
    /\ repo = NoRepo
    /\ isWindows = FALSE

NextMgr ==
    \/ \E t \in RegisterableTypes : RegisterRepoType(t, ExtClass)
    \/ ~hasMgr /\ \E n \in 0..MaxRepos : \E config \in [1..n -> EntryKinds] : ManagerInit(config)
    \/ hasMgr /\ \E i \in 1..MaxRepos : GetRepository(RepoNames[i])
    \/ hasMgr /\ GetRepository(UnknownName)
    \/ \E md \in ModelDefs, dir \in Dirs : IntegratedDoCheckout(md, dir)
    \/ \E md \in ModelDefs, dir \in Dirs : LocalDoCheckout(md, dir)

SpecMgr == InitMgr /\ [][NextMgr]_vars

\* The Git backend: a GitRepository as its constructor leaves it.
GitConfigs == {CfgGitToken, CfgGitPlain, CfgGitEmbedded}

InitGit ==
    /\ InitIdle
    /\ CredIdle
    /\ HtmlIdle
    /\ ConcIdle
    /\ \E config \in GitConfigs : repo = GitRepositoryInit(config, 1).obj
    /\ isWindows \in BOOLEAN

NextGit ==
    \/ \E md \in ModelDefs, dir \in Dirs : GitDoCheckout(md, dir)
    \/ \E raises \in BOOLEAN : GitTakeown(raises)
    \/ \E outcome \in {"exit0", "exit1", "timeout"} : GitRun(outcome)
    \/ \E outcome \in {"exit0", "exit1", "timeout"} : GitRetry(outcome)

SpecGit == InitGit /\ [][NextGit]_vars

\* A do_checkout that was called goes on: every subprocess it starts ends
\* (by its exit or by the timeout), and the statement after it is run.
GitGoesOn ==
    \/ \E raises \in BOOLEAN : GitTakeown(raises)
    \/ \E outcome \in {"exit0", "exit1", "timeout"} : GitRun(outcome)
    \/ \E outcome \in {"exit0", "exit1", "timeout"} : GitRetry(outcome)

\* Weak fairness of GitGoesOn, WF_vars(GitGoesOn), written out: a statement
\* of do_checkout is waiting to run exactly while gitPc is not "idle", so
\* ENABLED <<GitGoesOn>>_vars is gitPc # "idle".
GitFairness == []<>(gitPc = "idle") \/ []<><<GitGoesOn>>_vars

SpecGitLive == SpecGit /\ GitFairness

\* The PyPI backend: a PyPiRepository as its constructor leaves it.
PyPiConfigs == {CfgPyPiSimple, CfgPyPiSimpleToken, CfgPyPiJson, CfgPyPiSimpleHtml}

InitPyPi ==
    /\ InitIdle
    /\ CredIdle
    /\ HtmlIdle
    /\ ConcIdle
    /\ \E config \in PyPiConfigs : repo = PyPiRepositoryInit(config, 1).obj
    /\ isWindows = FALSE

NextPyPi ==
    \/ \E md \in ModelDefs, dir \in Dirs : PyPiDoCheckout(md, dir)
    \/ pyPc = "query" /\ \E resp \in IndexResponses(repo) : PyPiQuery(resp)
    \/ pyPc = "download" /\ \E resp \in DownloadResponses : PyPiDownload(resp)

SpecPyPi == InitPyPi /\ [][NextPyPi]_vars

\* checkout_key and package_path of the backend self.
CheckoutKey(self, md) ==
    CASE self.class = "IntegratedSource" -> IntegratedCheckoutKey(self, md)
      [] self.class = "LocalRepository" -> LocalCheckoutKey(self, md)
      [] self.class = "GitRepository" -> GitCheckoutKey(self, md)
      [] OTHER -> PyPiCheckoutKey(self, md)

PackagePath(self, md, dir) ==
    CASE self.class = "IntegratedSource" -> IntegratedPackagePath(self, md, dir)
      [] self.class = "LocalRepository" -> LocalPackagePath(self, md, dir)
      [] self.class = "GitRepository" -> GitPackagePath(self, md, dir)
      [] OTHER -> PyPiPackagePath(self, md, dir)

\* Any one backend, as its constructor leaves it, and the checkouts made
\* with it.
BackendConfigs == {CfgIntegrated, CfgLocal} \cup GitConfigs \cup PyPiConfigs

InitBackend ==
    /\ InitIdle
    /\ CredIdle
    /\ HtmlIdle
    /\ ConcIdle
    /\ \E config \in BackendConfigs :
          repo = LoaderClassCall(BuiltinRepoTypes[config.protocol], config, 1).obj
    /\ isWindows \in (IF repo.class = "GitRepository" THEN BOOLEAN ELSE {FALSE})

NextBackend ==
    \/ \E md \in ModelDefs, dir \in Dirs : IntegratedDoCheckout(md, dir)
    \/ \E md \in ArtifactRefs, dir \in Dirs : LocalDoCheckout(md, dir)
    \/ NextGit
    \/ NextPyPi

SpecBackend == InitBackend /\ [][NextBackend]_vars

\* Two threads that call do_checkout of one backend object.  The variables
\* of a call hold the call of the thread that runs; parked holds the call of
\* the thread that waits.  The backend, the filesystem and the manager are
\* the same for both.
RunningFrame ==
    Frame(modelDef, checkoutDir, result, gitPc, gitStep, invocations, log,
          pyPc, requests, selected, extracted)

\* The scheduler takes the running thread off and puts the other one on,
\* between two statements of do_checkout.
Switch ==
    /\ calls > 0
    /\ parked' = RunningFrame
    /\ modelDef' = parked.modelDef
    /\ checkoutDir' = parked.checkoutDir
    /\ result' = parked.result
    /\ gitPc' = parked.gitPc
    /\ gitStep' = parked.gitStep
    /\ invocations' = parked.invocations
    /\ log' = parked.log
    /\ pyPc' = parked.pyPc
    /\ requests' = parked.requests
    /\ selected' = parked.selected
    /\ extracted' = parked.extracted
    /\ UNCHANGED <<repo, calls, isWindows, fs>>
    /\ UNCHANGED <<mgrVars, credVars, htmlVars>>

\* The running thread calls do_checkout, once, with a checkout directory of
\* its own.
ConcDoCheckout(md, dir) ==
    /\ modelDef = NoModelDef
    /\ dir # parked.checkoutDir
    /\ \/ GitDoCheckout(md, dir)
       \/ PyPiDoCheckout(md, dir)

ConcConfigs == {CfgGitToken, CfgPyPiJson}

InitConc ==
    /\ InitIdle
    /\ CredIdle
    /\ HtmlIdle
    /\ ConcIdle
    /\ \E config \in ConcConfigs :
          repo = LoaderClassCall(BuiltinRepoTypes[config.protocol], config, 1).obj
    /\ isWindows \in (IF repo.class = "GitRepository" THEN BOOLEAN ELSE {FALSE})

NextConc ==
    \/ \E md \in ModelDefs, dir \in Dirs : ConcDoCheckout(md, dir)
    \/ \E raises \in BOOLEAN : GitTakeown(raises)
    \/ \E outcome \in {"exit0", "exit1", "timeout"} : GitRun(outcome)
    \/ \E outcome \in {"exit0", "exit1", "timeout"} : GitRetry(outcome)
    \/ pyPc = "query" /\ \E resp \in IndexResponses(repo) : PyPiQuery(resp)
    \/ pyPc = "download" /\ \E resp \in DownloadResponses : PyPiDownload(resp)
    \/ Switch

SpecConc == InitConc /\ [][NextConc]_vars

\* ------------------------------------------------- the credential helpers

\* URLs the helpers are called with: no credentials, user and password,
\* a user alone, a password with an empty user, a password that holds an
\* '@', a host with a port, and credentials with a port.
CredUrls ==
    {RepoUrlPlain, RepoUrlCreds,
     <<"h", ":", "/", "/", "u", "@", "g", "/", "r">>,
     <<"h", ":", "/", "/", ":", "p", "@", "g", "/", "r">>,
     <<"h", ":", "/", "/", "u", ":", "p", "@", "q", "@", "g", "/", "r">>,
     <<"h", ":", "/", "/", "g", ":", "8", "/", "r">>,
     <<"h", ":", "/", "/", "u", ":", "p", "@", "g", ":", "8", "/", "r">>}

\* Values of the token, username and password properties.
CredTokens == {Token, <<>>}
CredUsernames == {<<"n">>}
CredPasswords == {<<"w">>, <<"w", "@", "x">>}

\* The properties of a plugin_config: each of token, username and password
\* is set or is not.
CredProps ==
    {NoProps}
    \cup {[k \in {"token"} |-> t] : t \in CredTokens}
    \cup {[k \in {"username"} |-> n] : n \in CredUsernames}
    \cup {[k \in {"password"} |-> w] : w \in CredPasswords}
    \cup {[token |-> t, username |-> n] : t \in CredTokens, n \in CredUsernames}
    \cup {[token |-> t, password |-> w] : t \in CredTokens, w \in CredPasswords}
    \cup {[username |-> n, password |-> w] : n \in CredUsernames, w \in CredPasswords}
    \cup {[token |-> t, username |-> n, password |-> w] :
            t \in CredTokens, n \in CredUsernames, w \in CredPasswords}

CredConfigs == {[protocol |-> "git", properties |-> props] : props \in CredProps}

\* credentials = _get_credentials(url, plugin_config)
GetCredentialsCall ==
    /\ credPc = "start"
    /\ credOut' = GetCredentials(credUrl, credConfig)
    /\ credPc' = "got"
    /\ UNCHANGED <<credUrl, credConfig, credArg, credApplied, credAgain, credSecond, credTwice>>
    /\ UNCHANGED <<mgrVars, callVars, gitVars, ioVars, pypiVars, htmlVars, concVars>>

\* _apply_credentials(url, credentials), with the credentials the first
\* call returned or with none.
ApplyCredentialsCall(credentials) ==
    /\ credPc = "got"
    /\ credArg' = credentials
    /\ credApplied' = ApplyCredentials(credUrl, credentials)
    /\ credPc' = "applied"
    /\ UNCHANGED <<credUrl, credConfig, credOut, credAgain, credSecond, credTwice>>
    /\ UNCHANGED <<mgrVars, callVars, gitVars, ioVars, pypiVars, htmlVars, concVars>>

\* _get_credentials(url, plugin_config) for the URL _apply_credentials
\* returned and a plugin_config that sets no credentials.
GetCredentialsOfApplied ==
    /\ credPc = "applied"
    /\ credAgain' = GetCredentials(credApplied, [protocol |-> "git", properties |-> NoProps])
    /\ credPc' = "again"
    /\ UNCHANGED <<credUrl, credConfig, credOut, credArg, credApplied, credSecond, credTwice>>
    /\ UNCHANGED <<mgrVars, callVars, gitVars, ioVars, pypiVars, htmlVars, concVars>>

\* _apply_credentials(applied, credentials) for the URL a first
\* _apply_credentials returned: with the same credentials or with others.
ApplyCredentialsAgain(credentials) ==
    /\ credPc = "applied"
    /\ credSecond' = credentials
    /\ credTwice' = ApplyCredentials(credApplied, credentials)
    /\ credPc' = "twice"
    /\ UNCHANGED <<credUrl, credConfig, credOut, credArg, credApplied, credAgain>>
    /\ UNCHANGED <<mgrVars, callVars, gitVars, ioVars, pypiVars, htmlVars, concVars>>

InitCreds ==
    /\ InitIdle
    /\ HtmlIdle
    /\ ConcIdle
    /\ repo = NoRepo
    /\ isWindows = FALSE
    /\ credPc = "start"
    /\ \E u \in CredUrls : credUrl = UrlParse(u)
    /\ credConfig \in CredConfigs
    /\ credOut = None
    /\ credArg = None
    /\ credApplied = UrlParse(<<>>)
    /\ credAgain = None
    /\ credSecond = None
    /\ credTwice = UrlParse(<<>>)

NextCreds ==
    \/ GetCredentialsCall
    \/ \E credentials \in {credOut, None, Token} : ApplyCredentialsCall(credentials)
    \/ GetCredentialsOfApplied
    \/ \E credentials \in {credArg, credOut, Token} : ApplyCredentialsAgain(credentials)

SpecCreds == InitCreds /\ [][NextCreds]_vars

\* ------------------------------------------------------ the HTML parser

\* package_url of the parser: the URL of the index page.
PageUrl == IndexUrl \o <<"/">>

\* <a ...attrs>text</a>
AnchorOf(attrs, text) == << StartTag("a", attrs), Text(text), EndTag("a") >>

Href(value) == Attr("href", value)

\* Pieces of index pages, as the events feed produces for them:
\*   <a href="w#s=d">w</a>                 <a href="h://f/w" data-yanked>w</a>
\*   <a href="w" data-yanked="">w</a>      <a href="w" data-requires-python="3">w</a>
\*   <a href="w#x"> w\n</a>                <a>w</a>
\*   <a href="w"></a>                      <a href="w"> </a>
\*   <a href="w"><b>x</b></a>              <a href="w">w<br></a>
\*   x<a href="w"></a>                     </p>
\*   <br>
HtmlPieces ==
    {AnchorOf(<< Href(<<"w", "#", "s", "=", "d">>) >>, <<"w">>),
     AnchorOf(<< Href(<<"h", ":", "/", "/", "f", "/", "w">>), Attr("data-yanked", None) >>,
              <<"w">>),
     AnchorOf(<< Href(<<"w">>), Attr("data-yanked", <<>>) >>, <<"w">>),
     AnchorOf(<< Href(<<"w">>), Attr("data-requires-python", <<"3">>) >>, <<"w">>),
     AnchorOf(<< Href(<<"w", "#", "x">>) >>, <<" ", "w", "\n">>),
     AnchorOf(<<>>, <<"w">>),
     << StartTag("a", << Href(<<"w">>) >>), EndTag("a") >>,
     AnchorOf(<< Href(<<"w">>) >>, <<" ">>),
     << StartTag("a", << Href(<<"w">>) >>), StartTag("b", <<>>), Text(<<"x">>),
        EndTag("b"), EndTag("a") >>,
     << StartTag("a", << Href(<<"w">>) >>), Text(<<"w">>), StartTag("br", <<>>),
        EndTag("a") >>,
     << Text(<<"x">>), StartTag("a", << Href(<<"w">>) >>), EndTag("a") >>,
     << EndTag("p") >>,
     << StartTag("br", <<>>) >>}

\* The pages: up to MaxFiles pieces, one after the other.
RECURSIVE Concat(_)
Concat(pieces) == IF pieces = <<>> THEN <<>> ELSE Head(pieces) \o Concat(Tail(pieces))

HtmlInputs ==
    {Concat(pieces) : pieces \in UNION {[1..k -> HtmlPieces] : k \in 0..MaxFiles}}

\* feed calls handle_starttag, handle_endtag or handle_data for the next
\* event of the page; an exception of a handler leaves feed.
HtmlNext == htmlPage[htmlFed + 1]

HtmlStartTagEvent ==
    /\ htmlFed < Len(htmlPage)
    /\ ~htmlParser.raised
    /\ HtmlNext.type = "start"
    /\ htmlParser' = HtmlHandleStartTag(htmlParser, HtmlNext.tag, HtmlNext.attrs)
    /\ htmlFed' = htmlFed + 1
    /\ UNCHANGED <<htmlPage, mgrVars, callVars, gitVars, ioVars, pypiVars, credVars, concVars>>

HtmlEndTagEvent ==
    /\ htmlFed < Len(htmlPage)
    /\ ~htmlParser.raised
    /\ HtmlNext.type = "end"
    /\ htmlParser' = HtmlHandleEndTag(htmlParser, HtmlNext.tag)
    /\ htmlFed' = htmlFed + 1
    /\ UNCHANGED <<htmlPage, mgrVars, callVars, gitVars, ioVars, pypiVars, credVars, concVars>>

HtmlDataEvent ==
    /\ htmlFed < Len(htmlPage)
    /\ ~htmlParser.raised
    /\ HtmlNext.type = "data"
    /\ htmlParser' = HtmlHandleData(htmlParser, HtmlNext.data)
    /\ htmlFed' = htmlFed + 1
    /\ UNCHANGED <<htmlPage, mgrVars, callVars, gitVars, ioVars, pypiVars, credVars, concVars>>

\* _PypiSimpleHtmlParser(model_def.package, package_req.url) and the page
\* feed is called with.
InitParser ==
    /\ InitIdle
    /\ CredIdle
    /\ ConcIdle
    /\ repo = NoRepo
    /\ isWindows = FALSE
    /\ htmlPage \in HtmlInputs
    /\ htmlFed = 0
    /\ htmlParser = HtmlParserInit(PackageName, PageUrl)

NextParser ==
    \/ HtmlStartTagEvent
    \/ HtmlEndTagEvent
    \/ HtmlDataEvent

SpecParser == InitParser /\ [][NextParser]_vars

\* =================================================================== claims

\* ------------------------------------------------- Git checkout (SpecGit)

\* A do_checkout call has returned or raised.
GitFinished == gitPc = "idle" /\ result.kind # "none"

InvocationsOf(step) == {i \in 1..Len(invocations) : invocations[i].step = step}

RaisedRepoError ==
    /\ result.kind = "raised"
    /\ result.error.type = "EModelRepo"

\* C1: a command that exits non-zero is invoked exactly once more (the retry
\* follows it directly, with the same argument vector, and is pending while
\* do_checkout stands before it); a retry that exits non-zero too is the
\* last invocation of the call, which raises EModelRepo; no step is invoked
\* a third time.  A fetch of a version the remote does not hold, when both
\* its invocations exit, is invoked exactly twice, reset is never invoked
\* and the call raises EModelRepo.
C1_RetryOnceThenRaise ==
    /\ \A i \in 1..Len(invocations) :
        LET v == invocations[i]
        IN  /\ (v.attempt = 1 /\ v.exit = "exit1") =>
                    IF i = Len(invocations)
                    THEN gitPc = "retry"
                    ELSE /\ invocations[i + 1].attempt = 2
                         /\ invocations[i + 1].argv = v.argv
            /\ v.attempt = 2 =>
                    /\ i > 1
                    /\ invocations[i - 1].attempt = 1
                    /\ invocations[i - 1].exit = "exit1"
                    /\ invocations[i - 1].step = v.step
            /\ (v.attempt = 1 /\ v.exit # "exit1") =>
                    \A j \in (i + 1)..Len(invocations) : invocations[j].step # v.step
            /\ (v.attempt = 2 /\ v.exit = "exit1") =>
                    /\ i = Len(invocations)
                    /\ GitFinished
                    /\ RaisedRepoError
    /\ \A k \in 1..4 : Cardinality(InvocationsOf(k)) <= 2
    /\ (/\ GitFinished
        /\ modelDef.version \notin RemoteVersions
        /\ InvocationsOf(3) # {}
        /\ \A i \in InvocationsOf(3) : invocations[i].exit # "timeout")
       => /\ Cardinality(InvocationsOf(3)) = 2
          /\ InvocationsOf(4) = {}
          /\ RaisedRepoError

\* C1 witness: a checkout of the missing version has failed after two
\* fetch invocations that both exited non-zero.
C1_Witness ==
    /\ GitFinished
    /\ modelDef.version \notin RemoteVersions
    /\ Cardinality(InvocationsOf(3)) = 2
    /\ \A i \in InvocationsOf(3) : invocations[i].exit = "exit1"
    /\ RaisedRepoError

\* C2: the commands run in the order init, remote add origin <url>,
\* fetch --depth=1 origin <version>, reset --hard FETCH_HEAD, each in the
\* checkout directory with the 30 second timeout: the first invocation of
\* the call is init, the first invocation of step k+1 directly follows an
\* invocation of step k that exited 0, and the package path is returned only
\* after a reset that exited 0.
C2_StepsInOrder ==
    /\ \A i \in 1..Len(invocations) :
        LET v == invocations[i]
            cmd == SubSeq(v.argv, Len(GitCli(checkoutDir, isWindows)) + 1, Len(v.argv))
        IN  /\ v.cwd = checkoutDir
            /\ v.timeout = 30
            /\ v.step = 1 => cmd = << <<"init">> >>
            /\ v.step = 2 => cmd = << <<"remote">>, <<"add">>, <<"origin">>,
                                      GetUrl(repo.repoUrl) >>
            /\ v.step = 3 => cmd = << <<"fetch">>, <<"--depth=1">>, <<"origin">>,
                                      modelDef.version >>
            /\ v.step = 4 => cmd = << <<"reset">>, <<"--hard">>, <<"FETCH_HEAD">> >>
            /\ v.step \in 1..4
            /\ (i = 1) => v.step = 1
            /\ (i > 1 /\ v.attempt = 1) =>
                    /\ invocations[i - 1].step = v.step - 1
                    /\ invocations[i - 1].exit = "exit0"
            /\ (i > 1 /\ v.attempt = 2) => invocations[i - 1].step = v.step
    /\ (GitFinished /\ result.kind = "path") =>
            /\ Len(invocations) > 0
            /\ invocations[Len(invocations)].step = 4
            /\ invocations[Len(invocations)].exit = "exit0"
            /\ result.path = JoinPath(checkoutDir, modelDef.path)

\* C2 witness: a checkout has returned the package path after a retry.
C2_Witness ==
    /\ GitFinished
    /\ result.kind = "path"
    /\ Len(invocations) > 4

\* C3 as claimed: every do_checkout that fails ends with an EModelRepo naming
\* the package and the version, also when an invocation timed out.
C3_EveryFailureIsRepoError ==
    (GitFinished /\ result.kind = "raised") =>
        /\ result.error.type = "EModelRepo"
        /\ result.error.args = <<modelDef.package, modelDef.version>>

\* C4 as claimed: a checkout into a directory whose remote 'origin' an
\* earlier checkout of this backend added does not fail at 'remote add':
\* the remote is reused and the checkout goes on to fetch.
C4_ExistingRemoteReused ==
    ~(/\ GitFinished
      /\ result.kind = "raised"
      /\ fs[checkoutDir].origin = GetUrl(repo.repoUrl)
      /\ Len(invocations) > 0
      /\ invocations[Len(invocations)].step = 2
      /\ invocations[Len(invocations)].exit = "exit1"
      /\ InvocationsOf(3) = {})

\* The credentials in the authority of the backend's URL; None without.
UrlCredentials(u) ==
    IF Find(u.netloc, "@") = 0 THEN None
    ELSE SubSeq(u.netloc, 1, Find(u.netloc, "@") - 1)

\* The log holds the credential string c.
LogHolds(c) ==
    \E i \in 1..Len(log) : \E j \in 1..Len(log[i].args) :
        Contains(log[i].args[j], c \o <<"@">>)

\* C5 as claimed, for the Git backend: no record logged by do_checkout
\* holds the credentials of the repository URL.
C5_GitLogHasNoCredentials ==
    (repo.class = "GitRepository" /\ UrlCredentials(repo.repoUrl) # None)
        => ~LogHolds(UrlCredentials(repo.repoUrl))

\* --------------------------------------------------- the manager (SpecMgr)

\* The constructor calls the manager's __init__ made for repository name.
CtorCallsOf(name) == {i \in 1..Len(ctorCalls) : ctorCalls[i] = name}

\* C6: once a manager is constructed, the backend constructor has been
\* called exactly once for each configured repository, in the run of
\* __init__ that filled _loaders, and whatever lookups and checkouts were
\* made, get_repository of a configured name returns the instance that call
\* constructed (the i-th constructed instance for the i-th entry).
C6_SameInstanceBuiltOnce ==
    hasMgr =>
        /\ DOMAIN loaders = {RepoNames[i] : i \in 1..Len(mgrCall.config)}
        /\ \A i \in 1..Len(mgrCall.config) :
            /\ Cardinality(CtorCallsOf(RepoNames[i])) = 1
            /\ loaders[RepoNames[i]] =
                 LoaderClassCall(mgrCall.types[mgrCall.config[i].protocol],
                                 mgrCall.config[i], i).obj
        /\ lookup.kind = "ok" =>
            /\ lookup.name \in DOMAIN loaders
            /\ lookup.obj = loaders[lookup.name]
            /\ lookup.obj.id = CHOOSE i \in CtorCallsOf(lookup.name) : TRUE

\* C6 witness: a configured backend was looked up after a checkout was made
\* through the manager's backends.
C6_Witness ==
    /\ hasMgr
    /\ Len(mgrCall.config) = MaxRepos
    /\ lookup.kind = "ok"
    /\ calls > 0
    /\ repo # lookup.obj \/ calls > 1

\* C7: get_repository of a name the configuration does not hold raises
\* EModelRepoConfig 'unknown or not configured' naming it, exactly for such
\* names, and the call leaves _loaders as it was.
C7_UnknownNameRaises ==
    /\ [](lookup.kind = "raised" =>
            /\ lookup.name \notin DOMAIN loaders
            /\ lookup.error.type = "EModelRepoConfig"
            /\ lookup.error.text = "Model repository is unknown or not configured"
            /\ lookup.error.args = <<lookup.name>>)
    /\ [](lookup.kind = "ok" =>
            /\ lookup.name \in DOMAIN loaders
            /\ lookup.obj = loaders[lookup.name])
    /\ [][hasMgr => loaders' = loaders]_vars

\* C7 witness: a lookup of a name missing from a non-empty configuration
\* has raised.
C7_Witness ==
    /\ hasMgr
    /\ lookup.kind = "raised"
    /\ loaders # NoLoaders
    /\ lookup.name = RepoNames[MaxRepos]

\* The entries of the last constructor call whose protocol the registry did
\* not hold when it ran.
Unregistered ==
    {i \in 1..Len(mgrCall.config) :
        mgrCall.config[i].protocol \notin DOMAIN mgrCall.types}

\* The entries of the last constructor call whose backend constructor raises.
CtorRaises ==
    {i \in 1..Len(mgrCall.config) :
        /\ i \notin Unregistered
        /\ LoaderClassCall(mgrCall.types[mgrCall.config[i].protocol],
                           mgrCall.config[i], i).kind = "error"}

Min(S) == CHOOSE x \in S : \A y \in S : x <= y

\* C8 as claimed: a configuration with an entry of an unregistered protocol
\* makes the constructor raise EModelRepoConfig naming an unregistered
\* protocol, whatever the other entries are.
C8_UnknownProtocolAlwaysNamed ==
    (mgrCall.made /\ Unregistered # {}) =>
        /\ ~hasMgr
        /\ mgrError.type = "EModelRepoConfig"
        /\ \E i \in Unregistered : mgrError.args = <<mgrCall.config[i].protocol>>

\* C8 amended: such a configuration never yields a manager; the error is
\* the EModelRepoConfig naming the first unregistered protocol unless the
\* backend constructor of an entry processed before it raises, and then it
\* is that constructor's EConfigParse.
C8_UnknownProtocolFails ==
    (mgrCall.made /\ Unregistered # {}) =>
        /\ ~hasMgr
        /\ IF \E j \in CtorRaises : j < Min(Unregistered)
           THEN mgrError.type = "EConfigParse"
           ELSE /\ mgrError.type = "EModelRepoConfig"
                /\ mgrError.text = "Model repository type is not recognised"
                /\ mgrError.args = <<mgrCall.config[Min(Unregistered)].protocol>>

\* C8 witness: the unregistered protocol is not the first entry and the
\* constructor call failed naming it.
C8_Witness ==
    /\ mgrCall.made
    /\ Unregistered # {}
    /\ Min(Unregistered) > 1
    /\ mgrError.type = "EModelRepoConfig"

\* ------------------------------------------------ PyPI checkout (SpecPyPi)

\* The index query of the current call was answered with a JSON simple
\* index that decoded: its package_obj went to _pypi_simple_parse_response.
SimpleListingParsed ==
    /\ repo.class = "PyPiRepository"
    /\ repo.pipIndexUrl # None
    /\ Len(requests) >= 1
    /\ requests[1].response.status = 200
    /\ requests[1].response.contentType = PIP_SIMPLE_TYPE_JSON
    /\ requests[1].response.decodes

\* The wheel name format '{name}-{version}-{target}.whl' with '-' of the
\* name replaced by '_': the prefix up to the target.
WheelPrefix(name, version) ==
    Replace(name, "-", "_") \o <<"-">> \o version \o <<"-">>

\* filename is '{name}-{version}-{target}.whl' for some target.
IsWheelOf(filename, name, version) ==
    /\ Len(filename) >= Len(WheelPrefix(name, version)) + Len(DotWhl)
    /\ SubSeq(filename, 1, Len(WheelPrefix(name, version))) = WheelPrefix(name, version)
    /\ SubSeq(filename, Len(filename) - Len(DotWhl) + 1, Len(filename)) = DotWhl

\* The target of such a filename.
WheelTargetOf(filename, name, version) ==
    SubSeq(filename, Len(WheelPrefix(name, version)) + 1, Len(filename) - Len(DotWhl))

\* C9 as claimed: the candidates are exactly the entries of the listing
\* whose filename is '{name}-{version}-{target}.whl' and that are not
\* yanked; one candidate is returned with its filename and URL, none raises
\* 'No package found' naming package and version, several raise 'Multiple
\* packages found' listing the target of each candidate.
C9_CandidatesAreTheWheels ==
    SimpleListingParsed =>
        LET obj == requests[1].response.obj
            name == GetOr(obj.name, modelDef.package)
            cand == {i \in 1..Len(obj.files) :
                        /\ IsWheelOf(obj.files[i].filename, name, modelDef.version)
                        /\ ~obj.files[i].yanked}
            Cand(f) == IsWheelOf(f.filename, name, modelDef.version) /\ ~f.yanked
            inOrder == SelectSeq(obj.files, Cand)
        IN  /\ Cardinality(cand) = 1 =>
                /\ result.kind # "raised" \/ result.error.type # "EModelRepo"
                /\ selected.filename = inOrder[1].filename
                /\ selected.url = ApplyCredentials(UrlParse(inOrder[1].url),
                                                   PyPiCredentials(repo))
            /\ Cardinality(cand) = 0 =>
                /\ result.kind = "raised"
                /\ result.error =
                     Error("EModelRepo", "No package found for version",
                           <<name, modelDef.version>>)
            /\ Cardinality(cand) > 1 =>
                /\ result.kind = "raised"
                /\ result.error =
                     Error("EModelRepo", "Multiple packages found for version (targets)",
                           <<name, modelDef.version,
                             JoinWith(<<",", " ">>,
                                [i \in 1..Len(inOrder) |->
                                    WheelTargetOf(inOrder[i].filename, name,
                                                  modelDef.version)])>>)

\* C10 as claimed: a wheel download answered with a status that is not 2xx
\* ends do_checkout with an EModelRepo naming the status code and the
\* reason, and nothing is extracted into the checkout directory.
C10_DownloadStatusChecked ==
    (/\ repo.class = "PyPiRepository"
     /\ pyPc = "idle"
     /\ Len(requests) = 2
     /\ requests[2].response.status \notin 200..299)
    => /\ result.kind = "raised"
       /\ result.error.type = "EModelRepo"
       /\ result.error.args = <<requests[2].response.status, requests[2].response.reason>>
       /\ ~extracted

\* The simple-index query of the current call got a 200 response.
SimpleIndexAnswered ==
    /\ repo.class = "PyPiRepository"
    /\ repo.pipIndexUrl # None
    /\ Len(requests) >= 1
    /\ requests[1].response.status = 200

\* The call went on as candidate selection over a listing decides: one
\* candidate is the file the download request is made for, otherwise the
\* selection's error is what do_checkout raised.
SelectionOutcome(found) ==
    IF found.kind = "ok"
    THEN /\ Len(requests) = 2
         /\ selected.filename = found.filename
         /\ LogSafeUrl(selected.url) = LogSafeUrl(UrlParse(found.url))
    ELSE /\ Len(requests) = 1
         /\ result = Raised(found.error)

\* C11: after a 200 answer to the simple-index query, whatever format was
\* requested in the accept header, a response of the JSON content type
\* that decodes goes to candidate selection as it is, a response of the
\* HTML content type that the HTML parser gets through goes to the same
\* selection as the listing the parser built, and a response of any other
\* content type (or of none), or a JSON response that does not decode,
\* ends do_checkout with EModelRepo and no download request.
C11_ContentTypeDecides ==
    SimpleIndexAnswered =>
        LET resp == requests[1].response
            parser == HtmlFeed(HtmlParserInit(modelDef.package, requests[1].url),
                               resp.html)
        IN  IF resp.contentType = PIP_SIMPLE_TYPE_JSON /\ resp.decodes
            THEN SelectionOutcome(PyPiSimpleParseResponse(modelDef, resp.obj))
            ELSE IF resp.contentType = PIP_SIMPLE_TYPE_HTML
            THEN \/ parser.raised
                 \/ SelectionOutcome(PyPiSimpleParseResponse(modelDef, parser.response))
            ELSE /\ Len(requests) = 1
                 /\ RaisedRepoError

\* C11 witness: JSON was requested, an HTML page was returned, and the one
\* wheel of the page is being downloaded.
C11_Witness ==
    /\ SimpleIndexAnswered
    /\ requests[1].accept = PIP_SIMPLE_TYPE_JSON
    /\ requests[1].response.contentType = PIP_SIMPLE_TYPE_HTML
    /\ Len(requests) = 2
    /\ selected.filename = WheelA

\* ------------------------------------------- any backend (SpecBackend)

\* The state a do_checkout call starts in holds nothing of earlier calls:
\* the result is open, the log holds the call's own opening records, no
\* command was invoked and the loop stands at the first command, and the
\* only request is the call's own index query, unanswered.
StartsClean ==
    /\ repo.class = "IntegratedSource" =>
            result' = IntegratedPackagePath(repo, modelDef', checkoutDir')
    /\ repo.class = "LocalRepository" =>
            result' = LocalPackagePath(repo, modelDef', checkoutDir')
    /\ repo.class \in {"GitRepository", "PyPiRepository"} =>
            /\ result' = NoResult
            /\ log'[1].args[Len(log'[1].args)] = modelDef'.version
            /\ log'[2].args = <<checkoutDir'>>
    /\ repo.class = "GitRepository" =>
            /\ Len(log') = 2
            /\ invocations' = <<>>
            /\ gitStep' = 1
    /\ repo.class = "PyPiRepository" =>
            /\ Len(log') = 4
            /\ Len(requests') = 1
            /\ requests'[1].response.status = 0
            /\ selected' = NoSelection
            /\ extracted' = FALSE

C12_Step ==
    /\ repo' = repo
    /\ loaders' = loaders
    /\ \A d \in Dirs : d # checkoutDir' => fs'[d] = fs[d]
    /\ (calls' = calls + 1 /\ result.kind = "raised") => StartsClean

\* C12: no step of a do_checkout changes the backend instance or the
\* manager's map, a call changes no directory but its own checkout
\* directory (a fresh directory is still fresh after a failed call), and a
\* call that follows a failed call starts in the state a first call with
\* its artifact and directory starts in, so it has the outcomes of a first
\* call.
C12_FailedCallLeavesNoState == [][C12_Step]_vars

\* C12 witness: a Git checkout into a fresh directory has returned the
\* package path after the call before it failed in the other directory.
C12_Witness ==
    /\ repo.class = "GitRepository"
    /\ calls = 2
    /\ GitFinished
    /\ result.kind = "path"
    /\ \E d \in Dirs :
        /\ d # checkoutDir
        /\ fs[d].inited
        /\ fs[d].head = None
    /\ \A i \in 1..Len(invocations) : invocations[i].exit = "exit0"

\* The strings an error message was formatted from (the status code and
\* the reason of a failed lookup are a number and a phrase of the server).
StringArgs(e) == IF e.text = "Package lookup failed" THEN <<>> ELSE e.args

\* The message of e holds the string s.
Names(e, s) == \E i \in 1..Len(StringArgs(e)) : StringArgs(e)[i] = s

\* C13 as claimed: every EModelRepo a checkout raises carries the package
\* name and the version of the artifact.
C13_RepoErrorNamesArtifact ==
    RaisedRepoError =>
        /\ Names(result.error, modelDef.package)
        /\ Names(result.error, modelDef.version)

\* --------------------------------------- credential helpers (SpecCreds)

\* The value the property key is configured with; None when it is not set.
Configured(config, key) ==
    IF key \in DOMAIN config.properties THEN config.properties[key] ELSE None

\* The authority of u carries embedded credentials: it holds an '@'.
HasEmbedded(u) == \E i \in 1..Len(u.netloc) : u.netloc[i] = "@"

\* The parts of the authority of u that end before one of its '@'.
PartsBeforeAt(u) ==
    {SubSeq(u.netloc, 1, i - 1) : i \in {j \in 1..Len(u.netloc) : u.netloc[j] = "@"}}

\* C14 as claimed: _get_credentials returns the configured token; without
\* one, 'username:password' when both are configured; without those, the
\* part of the authority before the '@' whenever the authority carries
\* embedded credentials; and none in the remaining case alone.
C14_CredentialPrecedence ==
    credPc # "start" =>
        IF Configured(credConfig, "token") # None
        THEN credOut = Configured(credConfig, "token")
        ELSE IF /\ Configured(credConfig, "username") # None
                /\ Configured(credConfig, "password") # None
        THEN credOut = Configured(credConfig, "username") \o <<":">>
                            \o Configured(credConfig, "password")
        ELSE IF HasEmbedded(credUrl)
        THEN credOut \in PartsBeforeAt(credUrl)
        ELSE credOut = None

\* The host and port of the authority of u: what follows its last '@'.
HostPort(u) ==
    LET at == CHOOSE i \in 0..Len(u.netloc) :
                /\ i = 0 \/ u.netloc[i] = "@"
                /\ \A j \in (i + 1)..Len(u.netloc) : u.netloc[j] # "@"
    IN  SubSeq(u.netloc, at + 1, Len(u.netloc))

\* C15 as claimed: _apply_credentials returns the URL as it is when the
\* credentials are absent; otherwise the authority of the result is
\* '<credentials>@<host[:port]>' with the host and port of the input and
\* nothing of the credentials the input carried, and scheme and path are
\* those of the input.
C15_ApplyReplacesCredentials ==
    credPc \in {"applied", "again"} =>
        IF credArg = None
        THEN credApplied = credUrl
        ELSE /\ credApplied.netloc = credArg \o <<"@">> \o HostPort(credUrl)
             /\ credApplied.scheme = credUrl.scheme
             /\ credApplied.path = credUrl.path

\* C16 as claimed: for a URL without embedded credentials and a config
\* from which _get_credentials yields the (non-empty) credentials c, the authority of
\* _apply_credentials(url, c) is c, '@' and the host and port of the URL,
\* and _get_credentials of that result with an empty config yields c.
C16_CredentialsRoundTrip ==
    (/\ credPc = "again"
     /\ ~HasEmbedded(credUrl)
     /\ credOut # None
     /\ credOut # <<>>
     /\ credArg = credOut)
    => /\ credApplied.netloc = credOut \o <<"@">> \o credUrl.netloc
       /\ credAgain = credOut

\* ---------------------------------------------- checkout keys (SpecBackend)

\* The content a checkout of md materializes: the commit a Git checkout
\* resets to, the wheel a PyPI checkout asks the index for, the directory a
\* Local checkout points at; nothing for Integrated.
ContentOf(self, md) ==
    CASE self.class = "GitRepository" -> md.version
      [] self.class = "PyPiRepository" -> WheelPrefix(md.package, md.version)
      [] self.class = "LocalRepository" -> md.path
      [] OTHER -> <<>>

\* C17 as claimed: two artifacts a backend gives the same checkout key
\* materialize the same content and resolve to the same package path in
\* the same checkout directory.
C17_EqualKeysSameContent ==
    repo # NoRepo =>
        \A a, b \in ArtifactRefs :
            CheckoutKey(repo, a) = CheckoutKey(repo, b) =>
                /\ ContentOf(repo, a) = ContentOf(repo, b)
                /\ \A dir \in Dirs : PackagePath(repo, a, dir) = PackagePath(repo, b, dir)

\* ------------------------------------------- the Local backend (SpecBackend)

\* C18: after any number of do_checkout calls of a Local backend the
\* result is the path of the configured base joined with the path of the
\* artifact of the call, whatever the checkout directory is and whatever
\* calls were made before, no directory holds anything, nothing was
\* logged, and the backend is as its constructor left it.
C18_LocalCheckoutIdempotent ==
    (repo # NoRepo /\ repo.class = "LocalRepository") =>
        /\ calls > 0 =>
            /\ result.kind = "path"
            /\ result.path = JoinPath(repo.repoConfig.properties.repoUrl, modelDef.path)
        /\ \A d \in Dirs : fs[d] = EmptyDir
        /\ log = <<>>
        /\ repo = LocalRepositoryInit(repo.repoConfig, repo.id).obj

\* C18 witness: a Local backend has made its second checkout, into the
\* second directory.
C18_Witness ==
    /\ repo # NoRepo
    /\ repo.class = "LocalRepository"
    /\ calls = 2
    /\ checkoutDir = <<"/", "b">>
    /\ result.kind = "path"

\* ------------------------------------------ required properties (SpecMgr)

\* The backend class cls has a required property that config does not set:
\* repoUrl for Local and Git, one of pipIndex and pipIndexUrl for PyPI.
LacksRequired(cls, config) ==
    \/ /\ cls \in {"LocalRepository", "GitRepository"}
       /\ "repoUrl" \notin DOMAIN config.properties
    \/ /\ cls = "PyPiRepository"
       /\ "pipIndex" \notin DOMAIN config.properties
       /\ "pipIndexUrl" \notin DOMAIN config.properties

\* The entries of the last constructor call whose backend lacks a
\* required property.
MissingRequired ==
    {i \in 1..Len(mgrCall.config) :
        /\ i \notin Unregistered
        /\ LacksRequired(mgrCall.types[mgrCall.config[i].protocol], mgrCall.config[i])}

\* C19: a RepositoryManager call whose configuration holds an entry of a
\* Local, Git or PyPI backend that lacks a required property constructs no
\* manager and raises a configuration error, which is the EConfigParse of
\* the backend constructor when no entry before it fails; so every backend
\* a manager holds has its required property, and no do_checkout raises
\* EConfigParse.
C19_MissingPropertyFailsConstruction ==
    /\ (mgrCall.made /\ MissingRequired # {}) =>
            /\ ~hasMgr
            /\ mgrError.type \in {"EConfigParse", "EModelRepoConfig"}
            /\ (\A j \in Unregistered : j > Min(MissingRequired)) =>
                    /\ mgrError.type = "EConfigParse"
                    /\ mgrError.args \in {<<"repoUrl">>, <<"pipIndex", "pipIndexUrl">>}
    /\ hasMgr => \A name \in DOMAIN loaders :
            ~LacksRequired(loaders[name].class, loaders[name].repoConfig)
    /\ result.kind = "raised" => result.error.type # "EConfigParse"

\* C19 witness: the constructor call failed on a PyPI entry with neither
\* pipIndex nor pipIndexUrl that follows an entry that was constructed.
C19_Witness ==
    /\ mgrCall.made
    /\ ~hasMgr
    /\ MissingRequired # {}
    /\ Min(MissingRequired) > 1
    /\ mgrCall.config[Min(MissingRequired)] = CfgPyPiNoIndex
    /\ mgrError.type = "EConfigParse"
    /\ mgrError.args = <<"pipIndex", "pipIndexUrl">>

\* ----------------------------------------- direct metadata (SpecPyPi)

\* The package-metadata query of the current call got a 200 response that
\* decoded.
MetadataAnswered ==
    /\ repo.class = "PyPiRepository"
    /\ repo.pipIndexUrl = None
    /\ Len(requests) >= 1
    /\ requests[1].response.status = 200
    /\ requests[1].response.decodes

\* The entries of 'urls' of the metadata response that are wheels.
BdistWheels ==
    {i \in 1..Len(requests[1].response.obj.urls) :
        requests[1].response.obj.urls[i].packagetype = "bdist_wheel"}

\* C20: on the direct-metadata path the entries of 'urls' of package type
\* bdist_wheel alone decide: exactly one makes do_checkout download its
\* URL under its filename, none ends it with EModelRepo 'No compatible
\* packages found', several end it with EModelRepo 'Multiple compatible
\* packages found', in both cases without a download request.
C20_BdistWheelsDecide ==
    MetadataAnswered =>
        LET urls == requests[1].response.obj.urls
        IN  /\ Cardinality(BdistWheels) = 1 =>
                /\ Len(requests) = 2
                /\ selected.filename = urls[CHOOSE i \in BdistWheels : TRUE].filename
                /\ requests[2].url = urls[CHOOSE i \in BdistWheels : TRUE].url
                /\ ~RaisedRepoError
            /\ Cardinality(BdistWheels) = 0 =>
                /\ Len(requests) = 1
                /\ RaisedRepoError
                /\ result.error.text = "No compatible packages found"
            /\ Cardinality(BdistWheels) > 1 =>
                /\ Len(requests) = 1
                /\ RaisedRepoError
                /\ result.error.text = "Multiple compatible packages found"

\* C20 witness: the response listed a source distribution and one wheel,
\* and the wheel is being downloaded.
C20_Witness ==
    /\ MetadataAnswered
    /\ Cardinality(BdistWheels) = 1
    /\ Len(requests[1].response.obj.urls) > 1
    /\ Len(requests) = 2
    /\ selected.filename = WheelA

\* ------------------------------------------ returned paths (SpecBackend)

\* The last do_checkout call returned (a path or None).
Succeeded == result.kind \in {"path", "absent"}

\* The path p is the directory dir or lies below it.
IsUnder(p, dir) ==
    \/ p = dir
    \/ /\ Len(p) > Len(dir) + 1
       /\ SubSeq(p, 1, Len(dir)) = dir
       /\ p[Len(dir) + 1] = "/"

\* C21 as claimed: a do_checkout that succeeds returns None for the
\* Integrated backend and, for every other backend, a path that is the
\* checkout directory of the call or lies below it; the Local and the
\* Integrated backend leave every checkout directory as it was.
C21_PathUnderCheckoutDir ==
    (repo # NoRepo /\ Succeeded) =>
        /\ repo.class = "IntegratedSource" => result = NoneResult
        /\ repo.class # "IntegratedSource" =>
                /\ result.kind = "path"
                /\ IsUnder(result.path, checkoutDir)
        /\ repo.class \in {"IntegratedSource", "LocalRepository"} =>
                \A d \in Dirs : fs[d] = EmptyDir

\* C22 as claimed: the path a do_checkout returns exists when the call
\* returns (Integrated returns None): for Local the base joined with the
\* path of the artifact, for Git the checkout directory joined with it, in
\* the working tree the reset produced.
C22_ReturnedPathExists ==
    (repo # NoRepo /\ Succeeded) =>
        \/ repo.class = "IntegratedSource" /\ result = NoneResult
        \/ /\ result.kind = "path"
           /\ PathExists(fs, result.path)
           /\ repo.class = "GitRepository" =>
                fs[checkoutDir].head = modelDef.version

\* ------------------------------------------- order of the steps (SpecPyPi)

\* What candidate selection makes of the answer resp to the index query of
\* the current call; an error when resp cannot be read as a listing.
IndexSelection(resp) ==
    LET unreadable == [kind |-> "error", error |-> NoError]
    IN  IF repo.pipIndexUrl = None
        THEN IF resp.decodes THEN PyPiJsonSelect(modelDef, resp.obj) ELSE unreadable
        ELSE IF resp.contentType = PIP_SIMPLE_TYPE_JSON
        THEN IF resp.decodes
             THEN PyPiSimpleParseResponse(modelDef, resp.obj)
             ELSE unreadable
        ELSE IF resp.contentType = PIP_SIMPLE_TYPE_HTML
        THEN LET parser == HtmlFeed(HtmlParserInit(modelDef.package, requests[1].url),
                                    resp.html)
             IN  IF parser.raised THEN unreadable
                 ELSE PyPiSimpleParseResponse(modelDef, parser.response)
        ELSE unreadable

\* The requests of the current call are the index query, and after it the
\* download of the one candidate the selection over a 200 answer found;
\* nothing is extracted before the download is answered.
C23_State ==
    repo.class = "PyPiRepository" =>
        /\ Len(requests) <= 2
        /\ pyPc = "query" <=> (Len(requests) = 1 /\ requests[1].response.status = 0)
        /\ pyPc = "download" <=> (Len(requests) = 2 /\ requests[2].response.status = 0)
        /\ Len(requests) >= 1 => requests[1].kind = "index"
        /\ Len(requests) = 2 =>
            /\ requests[2].kind = "download"
            /\ requests[1].response.status = 200
            /\ IndexSelection(requests[1].response).kind = "ok"
            /\ selected.filename = IndexSelection(requests[1].response).filename
            /\ requests[2].url = GetUrl(selected.url)
        /\ extracted => (Len(requests) = 2 /\ requests[2].response.status # 0)
        /\ (pyPc = "idle" /\ Len(requests) = 1) =>
            /\ result.kind = "raised"
            /\ ~extracted

\* The step that handles the answer to the index query writes nothing, and
\* when the query or the selection failed it ends the call; a directory
\* is written by the step that handles the answer to the download alone,
\* and it is the checkout directory of the call.
C23_Step ==
    /\ pyPc = "query" =>
        /\ fs' = fs
        /\ extracted' = extracted
        /\ IF /\ requests'[1].response.status = 200
              /\ IndexSelection(requests'[1].response).kind = "ok"
           THEN pyPc' = "download"
           ELSE pyPc' = "idle" /\ result'.kind = "raised" /\ Len(requests') = 1
    /\ fs' # fs =>
        /\ pyPc = "download"
        /\ \A d \in Dirs : d # checkoutDir => fs'[d] = fs[d]

\* C23: PyPiRepository.do_checkout runs index query, candidate selection,
\* download and extraction in this order: the download request is made
\* only after a 200 answer to the index query from which the selection
\* found exactly one candidate, and when the query or the selection fails
\* no download request is made and no directory is written.
C23_QueryThenSelectThenDownload == []C23_State /\ [][C23_Step]_vars

\* C23 witness: the second call failed in the selection, after a 200 answer,
\* in the directory the first call unpacked a wheel into, which is as the
\* first call left it.
C23_Witness ==
    /\ repo.class = "PyPiRepository"
    /\ calls = 2
    /\ pyPc = "idle"
    /\ result.kind = "raised"
    /\ Len(requests) = 1
    /\ requests[1].response.status = 200
    /\ fs[checkoutDir].unpacked = WheelA

\* --------------------------------------------- the HTML parser (SpecParser)

\* The positions of the open tags named tag on the stack.
OpenAt(stack, tag) == {i \in 1..Len(stack) : stack[i].tag = tag}

Max(S) == CHOOSE x \in S : \A y \in S : y <= x

\* An end tag leaves the stack without the innermost open tag of its name
\* and everything opened after it, and empty when no open tag has its name.
C24_EndTagStep ==
    (htmlFed' = htmlFed + 1 /\ HtmlNext.type = "end") =>
        htmlParser'.stack =
            IF OpenAt(htmlParser.stack, HtmlNext.tag) = {} THEN <<>>
            ELSE SubSeq(htmlParser.stack, 1,
                        Max(OpenAt(htmlParser.stack, HtmlNext.tag)) - 1)

\* C24 as claimed: no handler raises, whatever the sequence of start tags,
\* end tags and text is, also for an end tag that matches no open tag or
\* arrives when the stack is empty; an end tag pops the stack until a
\* matching open tag is popped or the stack is empty.
C24_ParserNeverRaises == [](~htmlParser.raised) /\ [][C24_EndTagStep]_vars

\* The last event handled closed an anchor that holds text alone, which is
\* not blank, and has one href: the events were <a ...>, text, </a>.
AnchorClosed ==
    /\ htmlFed >= 3
    /\ ~htmlParser.raised
    /\ htmlPage[htmlFed].type = "end" /\ htmlPage[htmlFed].tag = "a"
    /\ htmlPage[htmlFed - 1].type = "data"
    /\ \E i \in 1..Len(htmlPage[htmlFed - 1].data) : ~IsSpace(htmlPage[htmlFed - 1].data[i])
    /\ htmlPage[htmlFed - 2].type = "start" /\ htmlPage[htmlFed - 2].tag = "a"
    /\ Cardinality({i \in 1..Len(htmlPage[htmlFed - 2].attrs) :
                        htmlPage[htmlFed - 2].attrs[i].name = "href"}) = 1

\* Its attributes, its text, the value of its attribute name, and the
\* record that was emitted last.
ClosedAttrs == htmlPage[htmlFed - 2].attrs
ClosedText == htmlPage[htmlFed - 1].data
HasAttr(name) == \E i \in 1..Len(ClosedAttrs) : ClosedAttrs[i].name = name
ValueOf(name) ==
    ClosedAttrs[CHOOSE i \in 1..Len(ClosedAttrs) : ClosedAttrs[i].name = name].value
LastRecord == htmlParser.response.files[Len(htmlParser.response.files)]

\* C25 as claimed: the record emitted for an anchor that carries a
\* data-requires-python attribute holds the value of the attribute.
C25_RequiresPythonRecorded ==
    (AnchorClosed /\ HasAttr("data-requires-python")) =>
        /\ Len(htmlParser.response.files) > 0
        /\ \E k \in DOMAIN LastRecord \ {"filename", "url", "hashes", "yanked"} :
                LastRecord[k] = ValueOf("data-requires-python")

\* The href h without its fragment, the URL it names seen from the page, and
\* the fragment.
WithoutFragment(h) ==
    IF \E i \in 1..Len(h) : h[i] = "#"
    THEN SubSeq(h, 1, (CHOOSE i \in 1..Len(h) :
                            h[i] = "#" /\ \A j \in 1..(i - 1) : h[j] # "#") - 1)
    ELSE h
Resolved(h) ==
    IF \E i \in 1..(Len(h) - 2) : SubSeq(h, i, i + 2) = <<":", "/", "/">>
    THEN h
    ELSE PageUrl \o h
FragmentOf(h) == SubSeq(h, Len(WithoutFragment(h)) + 2, Len(h))

\* {algo: digest} for a fragment 'algo=digest', {} for any other.
HashesOf(fragment) ==
    LET eq == {i \in 1..Len(fragment) : fragment[i] = "="}
    IN  IF Cardinality(eq) = 1
        THEN {<<SubSeq(fragment, 1, Max(eq) - 1),
                SubSeq(fragment, Max(eq) + 1, Len(fragment))>>}
        ELSE {}

\* The record of the closed anchor has the URL, the hashes and the yanked
\* flag the claim gives it.
ClosedRecordFields ==
    /\ Len(htmlParser.response.files) > 0
    /\ LastRecord.url = Resolved(WithoutFragment(ValueOf("href")))
    /\ LastRecord.hashes = HashesOf(FragmentOf(ValueOf("href")))
    /\ LastRecord.yanked = HasAttr("data-yanked")

\* C26 as claimed: the record emitted for an anchor with text t and href h
\* has filename t, the URL h without its fragment, resolved against the
\* URL of the page, the hashes {algo: digest} of a fragment algo=digest
\* and {} otherwise, and yanked true exactly when data-yanked is present.
C26_RecordOfAnchor ==
    AnchorClosed =>
        /\ ClosedRecordFields
        /\ LastRecord.filename = ClosedText

\* C26 amended: the same, with the filename being t without its leading
\* and trailing whitespace.
C26_RecordOfAnchorStripped ==
    AnchorClosed =>
        /\ ClosedRecordFields
        /\ LastRecord.filename = Strip(ClosedText)
        /\ \E i \in 1..Len(ClosedText) : \E j \in i..Len(ClosedText) :
            /\ LastRecord.filename = SubSeq(ClosedText, i, j)
            /\ ~IsSpace(ClosedText[i]) /\ ~IsSpace(ClosedText[j])
            /\ \A k \in (1..(i - 1)) \cup ((j + 1)..Len(ClosedText)) : IsSpace(ClosedText[k])

\* C26 witness: an anchor with whitespace around its text, a fragment that
\* is no algo=digest pair and a relative href was closed.
C26_Witness ==
    /\ AnchorClosed
    /\ ClosedText # Strip(ClosedText)
    /\ FragmentOf(ValueOf("href")) # <<>>
    /\ LastRecord.hashes = {}
    /\ LastRecord.url = PageUrl \o <<"w">>

\* Elements without content and without an end tag.
VoidTags == {"br", "meta"}

\* The anchors of a page that emit a record, as filenames in document
\* order: the elements are followed with the open elements and, for each,
\* the text that lies immediately inside it; an anchor counts when it is
\* closed, has an href and non-blank text immediately inside.
RECURSIVE AnchorsWithText(_, _, _)
AnchorsWithText(events, open, acc) ==
    IF events = <<>> THEN acc
    ELSE LET e == Head(events)
             matching == OpenAt(open, e.tag)
             closed == open[Max(matching)]
         IN  CASE e.type = "start" ->
                    AnchorsWithText(Tail(events),
                        IF e.tag \in VoidTags THEN open
                        ELSE Append(open, [tag |-> e.tag, attrs |-> e.attrs, text |-> None]),
                        acc)
               [] e.type = "data" ->
                    AnchorsWithText(Tail(events),
                        IF open = <<>> \/ Strip(e.data) = <<>> THEN open
                        ELSE [open EXCEPT ![Len(open)].text = Strip(e.data)],
                        acc)
               [] OTHER ->
                    IF matching = {} THEN AnchorsWithText(Tail(events), open, acc)
                    ELSE AnchorsWithText(Tail(events),
                            SubSeq(open, 1, Max(matching) - 1),
                            IF /\ e.tag = "a"
                               /\ closed.text # None
                               /\ \E i \in 1..Len(closed.attrs) : closed.attrs[i].name = "href"
                            THEN Append(acc, closed.text)
                            ELSE acc)

\* C27 as claimed: the records emitted so far are, in document order, one
\* for each anchor closed so far that has an href and non-blank text
\* immediately inside it, and no other: text before an anchor or inside an
\* element nested in it is no filename.
C27_OneRecordPerAnchorWithText ==
    ~htmlParser.raised =>
        [i \in 1..Len(htmlParser.response.files) |-> htmlParser.response.files[i].filename]
            = AnchorsWithText(SubSeq(htmlPage, 1, htmlFed), <<>>, <<>>)

\* ------------------------------------------ registered types (SpecMgr)

\* The registry holds the four built-in protocols, each with its built-in
\* class or the class registered over it.  A manager holds, for each entry
\* of its configuration, the one instance the class the registry held for
\* the entry's protocol made of the entry's configuration, and
\* get_repository returns it.  No constructor call ends with 'type is not
\* recognised' when the registry held every protocol of the configuration.
C28_State ==
    /\ \A t \in DOMAIN BuiltinRepoTypes :
        /\ t \in DOMAIN repoTypes
        /\ repoTypes[t] \in {BuiltinRepoTypes[t], ExtClass}
    /\ hasMgr => \A i \in 1..Len(mgrCall.config) :
        /\ mgrCall.config[i].protocol \in DOMAIN mgrCall.types
        /\ RepoNames[i] \in DOMAIN loaders
        /\ loaders[RepoNames[i]].class = mgrCall.types[mgrCall.config[i].protocol]
        /\ loaders[RepoNames[i]].repoConfig = mgrCall.config[i]
        /\ Cardinality({k \in 1..Len(ctorCalls) : ctorCalls[k] = RepoNames[i]}) = 1
    /\ (mgrCall.made /\ mgrError.type = "EModelRepoConfig") =>
            \E i \in 1..Len(mgrCall.config) :
                mgrCall.config[i].protocol \notin DOMAIN mgrCall.types
    /\ lookup.kind = "ok" => lookup.obj = loaders[lookup.name]

\* A registration stays, and a RepositoryManager call works with the
\* registry as it stands when the call is made.
C28_Step ==
    /\ \A t \in DOMAIN repoTypes :
        /\ t \in DOMAIN repoTypes'
        /\ repoTypes[t] = ExtClass => repoTypes'[t] = ExtClass
    /\ mgrCall' # mgrCall => mgrCall'.types = repoTypes

\* C28: a type registered before a manager is constructed is accepted by
\* the managers constructed afterwards: an entry whose protocol is the
\* registered name is built by one call of the registered constructor
\* with the entry's configuration, get_repository returns that instance,
\* and the built-in protocols stay in the registry.
C28_RegisteredTypeIsUsed == []C28_State /\ [][C28_Step]_vars

\* C28 witness: a manager built an entry of the registered protocol 'ext'
\* and an entry of a built-in protocol, and the 'ext' backend was looked up.
C28_Witness ==
    /\ hasMgr
    /\ lookup.kind = "ok"
    /\ lookup.obj.class = ExtClass
    /\ lookup.obj.repoConfig = CfgExt
    /\ \E n \in DOMAIN loaders : loaders[n].class = "IntegratedSource"

\* ------------------------------------ bounded invocations (SpecGitLive)

\* Each command is invoked at most twice.  A call that returned made 4 to 8
\* invocations, at least one of each command.  A call that failed because
\* command k exited non-zero made k+1 to 2k invocations, two of them of
\* command k and none of a later command.
C30_Bounds ==
    /\ \A k \in 1..4 : Cardinality(InvocationsOf(k)) <= 2
    /\ \A i \in 1..Len(invocations) : invocations[i].step \in 1..4
    /\ (GitFinished /\ result.kind = "path") =>
        /\ Len(invocations) \in 4..8
        /\ \A k \in 1..4 : InvocationsOf(k) # {}
    /\ (/\ GitFinished
        /\ result.kind = "raised"
        /\ \A i \in 1..Len(invocations) : invocations[i].exit # "timeout") =>
        /\ Len(invocations) >= 2
        /\ LET k == invocations[Len(invocations)].step
           IN  /\ Len(invocations) \in (k + 1)..(2 * k)
               /\ Cardinality(InvocationsOf(k)) = 2
               /\ \A j \in (k + 1)..4 : InvocationsOf(j) = {}

\* C30: when every subprocess ends, a do_checkout that was called returns
\* or raises, and the number of its git invocations is bounded as above.
C30_TerminatesWithinBounds == []C30_Bounds /\ (gitPc # "idle" ~> gitPc = "idle")

\* C30 witness: a checkout failed at the fetch after every command before
\* it was retried: six invocations, two of them of the fetch.
C30_Witness ==
    /\ GitFinished
    /\ RaisedRepoError
    /\ Len(invocations) = 6
    /\ invocations[6].step = 3
    /\ Cardinality(InvocationsOf(3)) = 2

\* ------------------------------------ two calls at a time (SpecConc)

\* The calls made so far: the one of the running thread and the one of the
\* waiting thread.
CallsMade == {F \in {RunningFrame, parked} : F.modelDef # NoModelDef}

FrameFinished(F) == F.gitPc = "idle" /\ F.pyPc = "idle" /\ F.result.kind # "none"

\* What the git commands of a call that exited 0 leave in a directory that
\* was empty, the first n invocations taken in order.
RECURSIVE GitDirAfter(_, _, _)
GitDirAfter(invs, n, md) ==
    IF n = 0 THEN EmptyDir
    ELSE LET d == GitDirAfter(invs, n - 1, md)
         IN  IF invs[n].exit = "exit0"
             THEN GitEffect(invs[n].step, d, repo, md)
             ELSE d

\* What a call run on its own leaves in its directory, from what its own
\* subprocesses and requests returned.
DirAlone(F) ==
    IF repo.class = "GitRepository"
    THEN GitDirAfter(F.invocations, Len(F.invocations), F.modelDef)
    ELSE IF Len(F.requests) = 2 /\ F.requests[2].response.status # 0
            /\ F.requests[2].response.zip
    THEN [EmptyDir EXCEPT !.unpacked =
                PyPiJsonSelect(F.modelDef, F.requests[1].response.obj).filename]
    ELSE EmptyDir

\* What a finished call run on its own returns or raises, from what its own
\* subprocesses and requests returned (the index is queried by the JSON API).
OutcomeAlone(F) ==
    IF repo.class = "GitRepository"
    THEN LET last == F.invocations[Len(F.invocations)]
         IN  CASE last.exit = "timeout" ->
                    Raised(Error("TimeoutExpired", "timed out after seconds",
                                 <<GIT_TIMEOUT_SECONDS>>))
               [] last.exit = "exit1" ->
                    Raised(Error("EModelRepo", "Git checkout failed for",
                                 <<F.modelDef.package, F.modelDef.version>>))
               [] OTHER -> GitPackagePath(repo, F.modelDef, F.checkoutDir)
    ELSE LET q == F.requests[1].response
         IN  IF q.status # 200
             THEN Raised(Error("EModelRepo", "Package lookup failed",
                               <<q.status, q.reason>>))
             ELSE IF ~q.decodes
             THEN Raised(Error("JSONDecodeError", "", <<>>))
             ELSE IF PyPiJsonSelect(F.modelDef, q.obj).kind # "ok"
             THEN Raised(PyPiJsonSelect(F.modelDef, q.obj).error)
             ELSE IF ~F.requests[2].response.zip
             THEN Raised(Error("BadZipFile", "File is not a zip file", <<>>))
             ELSE PyPiPackagePath(repo, F.modelDef, F.checkoutDir)

C29_State ==
    /\ \A F \in CallsMade :
          /\ fs[F.checkoutDir] = DirAlone(F)
          /\ FrameFinished(F) => F.result = OutcomeAlone(F)
    /\ \A d \in Dirs :
          (\A F \in CallsMade : F.checkoutDir # d) => fs[d] = EmptyDir
    /\ Cardinality(CallsMade) = 2 => checkoutDir # parked.checkoutDir

C29_Step ==
    /\ repo' = repo
    /\ mgrVars' = mgrVars
    /\ IF parked' # parked
       THEN parked' = RunningFrame /\ RunningFrame' = parked /\ fs' = fs
       ELSE \A d \in Dirs : d # checkoutDir' => fs'[d] = fs[d]

\* C29: with two do_checkout calls of one backend that use distinct
\* directories, under every interleaving of their steps, each directory
\* holds what its call leaves in it when run alone, each finished call has
\* the outcome it has when run alone, a step of a call changes only that
\* call's directory, and no step changes the backend or the manager.
C29_CallsDoNotInterfere == []C29_State /\ [][C29_Step]_vars

\* C29 witness: both calls are under way at once.  The waiting thread was
\* taken off between the first run of the fetch and its retry, the running
\* one stands before the retry of its reset, and each directory holds what
\* its own call has fetched.
C29_Witness ==
    /\ Cardinality(CallsMade) = 2
    /\ parked.gitPc = "retry" /\ parked.gitStep = 3
    /\ gitPc = "retry" /\ gitStep = 4
    /\ fs[checkoutDir].fetchHead = modelDef.version
    /\ fs[parked.checkoutDir].origin # None
    /\ fs[parked.checkoutDir].fetchHead = None

\* ------------------------- applying credentials twice (SpecCreds)

\* C31 as claimed: for credentials c1 and c2 that are strings, applying c2
\* to the URL that _apply_credentials(url, c1) returned gives what applying
\* c2 to url gives; with c2 = c1 this is the idempotence of
\* _apply_credentials.
C31_ApplyTwiceIsApplyLast ==
    (/\ credPc = "twice"
     /\ credArg # None
     /\ credSecond # None)
    => credTwice = ApplyCredentials(credUrl, credSecond)

====
